---- MODULE Spec2Model ----
(***************************************************************************)
(* Verification model of the recommendation core of the CodeMaster         *)
(* platform: Complexity Ordering, Scorer, Performance Analyzer and          *)
(* rule-based Recommendation Engine.  The tables and thresholds are those   *)
(* of src/docs/AI_RECOMMENDATION_SYSTEM.md; the Python modules that         *)
(* implement them (scorer.py, analyzer.py, recommender.py, constants.py)    *)
(* are not part of the source tree, so the procedures around the tables     *)
(* follow the design specification (spec.md, sections 3 and 4).             *)
(*                                                                         *)
(* Fractions are kept exact.  A score in [0,1] is a numerator over the      *)
(* denominator of its record; means are kept as (sum, count) pairs and      *)
(* compared by cross-multiplication.                                       *)
(***************************************************************************)
EXTENDS Integers, Sequences, FiniteSets, TLC

VARIABLES
    sub,        \* Scorer input: the submission being scored
    meta,       \* Scorer input: the ProblemMeta of that submission
    score,      \* Scorer output: the ScoreRecord, or NoScore before the call
    catalog,    \* the problem catalog handed to Analyzer and Engine
    history,    \* the user's ordered submission history
    profile,    \* SkillProfile of the last Analyzer call, or NoProfile
    recs,       \* list returned by the last Recommendation Engine call
    maxRecs,    \* max_recommendations of that call
    llm,        \* what the LLM service answered to the narration request
    narrated,   \* the list after the narration step
    pc,         \* position in the request pipeline
    \* Web client (App.js, api.js)
    localStorage,       \* the browser's localStorage, by key
    currentUser,        \* App state: the logged-in user, or null
    currentView,        \* App state: the view shown in the main area
    selectedProblemId,  \* App state, the problemId prop of CodeEditor
    refreshTrigger,     \* App state: counter that re-fetches user data
    authCalls,          \* login / register / Google requests in flight
    \* Web client (CodeEditor.js), state of the mounted editor
    problem, code, language, loading, running, submitting,
    result, aiAnalysis, recommendations,
    codeByLanguage,     \* ref: code kept per language
    autoSaveTimeoutRef, \* ref: id of the last auto-save timeout
    startTimeRef,       \* ref: when the current problem was opened
    \* Browser environment of the editor
    timers,             \* timeouts that are scheduled and not cleared
    calls,              \* async handlers suspended at an await
    clicks,             \* number of user gestures so far (event time)
    idleMs              \* time since the last code change, in ms

appVars == <<localStorage, currentUser, currentView, selectedProblemId,
            refreshTrigger, authCalls>>
editorVars == <<problem, code, language, loading, running, submitting,
               result, aiAnalysis, recommendations, codeByLanguage,
               autoSaveTimeoutRef, startTimeRef>>
browserVars == <<timers, calls, clicks, idleMs>>
frontendVars == <<appVars, editorVars, browserVars>>

vars == <<sub, meta, score, catalog, history, profile, recs, maxRecs, llm,
          narrated, pc, frontendVars>>

scorerVars == <<sub, meta, score>>
pipelineVars == <<catalog, history, profile, recs, maxRecs, llm, narrated, pc>>

Max(a, b) == IF a >= b THEN a ELSE b
Min(a, b) == IF a <= b THEN a ELSE b

\* A numeric field that is absent from the record (None).
NONE == -1

(***************************************************************************)
(* Web client: values of the React state.  The client is modelled from    *)
(* src/frontend/src/App.js, src/frontend/src/components/CodeEditor/        *)
(* CodeEditor.js (the later of the two versions the file holds) and the    *)
(* API module src/unnamed/part_004.  Display-only state (active tab,       *)
(* draft status, submission history, typing metrics, dark mode) is left    *)
(* out: no handler reads it to decide anything.                            *)
(***************************************************************************)

\* JavaScript null, for state that otherwise holds an object.
null == [ null |-> TRUE ]

\* null of selectedProblemId, which otherwise holds an id string.
NoProblemId == "null"

ProblemIds == { "p1", "p2" }

\* Two of the five languages of the editor; 'python' is the initial one.
Languages == { "python", "java" }

\* A property that an object does not have (codeByLanguage.current[lang]).
undefined == << "undefined" >>

\* A text is the sequence of its characters.
EmptyCode == << >>

\* 11 characters, 9 after trim().
PaddedCode == << " ", "r", "e", "t", "u", "r", "n", " ", "a", "+", " " >>

\* 10 characters, none of them white space at either end.
LongCode == << "r", "e", "t", "u", "r", "n", " ", "a", "+", "b" >>

\* What the user can leave in the editor after a change.
TypedCodes == { EmptyCode, PaddedCode, LongCode }

\* The record GET /problems/<id> answers with.
ProblemData(id) ==
    [ problem_id |-> id,
      function_name |-> << "f", id >>,
      starter_code |-> << "d", "e", "f", " ", "f", id, "(", "a", ")", ":",
                          " ", "p", "a", "s", "s" >> ]

\* The draft the server may hold for a problem (GET /drafts/<user>/<id>).
ServerDraft(id) ==
    [ code |-> << "#", " ", "d", "r", "a", "f", "t", " ", id, " ",
                  "x", "=", "1" >>,
      language |-> "java" ]

\* localStorage: every key holds null (getItem of a missing key) or an item.
DraftKey(id) == IF id = "p1" THEN "code_draft_p1" ELSE "code_draft_p2"

StorageKeys == { "currentUser", "userId" } \cup { DraftKey(id) : id \in ProblemIds }

EmptyStorage == [ k \in StorageKeys |-> null ]

\* JSON.stringify(value) as stored, and JSON.parse of a stored item.
Stringify(value) == [ json |-> value ]
Parse(item) == item.json

DemoUser == [ user_id |-> "student_tharun", name |-> "Tharun" ]

Users == { DemoUser, [ user_id |-> "student_irfan", name |-> "Irfan" ] }

\* useState / useRef initial values of a CodeEditor that is being mounted.
EditorInitial ==
    [ problem |-> null, code |-> EmptyCode, language |-> "python",
      loading |-> TRUE, running |-> FALSE, submitting |-> FALSE,
      result |-> null, aiAnalysis |-> null, recommendations |-> null,
      codeByLanguage |-> [ l \in Languages |-> undefined ],
      autoSaveTimeoutRef |-> 0, startTimeRef |-> 0 ]

EditorIs(state) ==
    /\ problem = state.problem
    /\ code = state.code
    /\ language = state.language
    /\ loading = state.loading
    /\ running = state.running
    /\ submitting = state.submitting
    /\ result = state.result
    /\ aiAnalysis = state.aiAnalysis
    /\ recommendations = state.recommendations
    /\ codeByLanguage = state.codeByLanguage
    /\ autoSaveTimeoutRef = state.autoSaveTimeoutRef
    /\ startTimeRef = state.startTimeRef

\* The client is not running (specifications of the recommendation core).
FrontendIdle ==
    /\ localStorage = EmptyStorage
    /\ currentUser = null
    /\ currentView = "problems"
    /\ selectedProblemId = NoProblemId
    /\ refreshTrigger = 0
    /\ authCalls = {}
    /\ EditorIs(EditorInitial)
    /\ timers = {}
    /\ calls = {}
    /\ clicks = 0
    /\ idleMs = 0

(***************************************************************************)
(* 4.1 Complexity Ordering                                                 *)
(***************************************************************************)

\* Mutant: two neighbouring classes of the ladder are swapped.
ComplexityHierarchySwapped ==
    << "O(1)", "O(log n)", "O(n)", "O(n^2)", "O(n log n)",
       "O(n^2 log n)", "O(n^3)", "O(2^n)", "O(n!)" >>

\* The canonical ladder, best to worst, in the spelling the submission form
\* sends ("O(n^2)" for n squared, "O(2^n)" for the exponential).
ComplexityHierarchy ==
    << "O(1)", "O(log n)", "O(n)", "O(n log n)", "O(n^2)",
       "O(n^2 log n)", "O(n^3)", "O(2^n)", "O(n!)" >>

Recognized(c) == \E i \in 1..Len(ComplexityHierarchy) : ComplexityHierarchy[i] = c

\* rank(complexity_string): position on the ladder; every unrecognized
\* string gets the sentinel, one worse than O(n!).
SentinelRank == Len(ComplexityHierarchy) + 1

rank(c) ==
    IF Recognized(c)
    THEN CHOOSE i \in 1..Len(ComplexityHierarchy) : ComplexityHierarchy[i] = c
    ELSE SentinelRank

levels_worse(actual, expected) == Max(0, rank(actual) - rank(expected))

(***************************************************************************)
(* 4.2 Scorer.  Component scores are numerators over 1000.                  *)
(***************************************************************************)

CorrectnessScore(passed) == IF passed THEN 1000 ELSE 0

\* Mutant: two levels worse is scored like one level worse.
EfficiencyTableFlat(levels) ==
    CASE levels = 0 -> 1000
      [] levels = 1 -> 800
      [] levels = 2 -> 800
      [] levels = 3 -> 300
      [] OTHER      -> 100

EfficiencyTable(levels) ==
    CASE levels = 0 -> 1000
      [] levels = 1 -> 800
      [] levels = 2 -> 500
      [] levels = 3 -> 300
      [] OTHER      -> 100

EfficiencyScore(passed, reported, expected) ==
    IF ~passed THEN 0
    ELSE EfficiencyTable(levels_worse(reported, expected))

\* Mutant: the 5+ bucket is missing and the score keeps falling.
AttemptsScoreUnbounded(attempts) ==
    CASE attempts = NONE -> 1000
      [] attempts <= 1   -> 1000
      [] attempts = 2    -> 900
      [] attempts = 3    -> 700
      [] attempts = 4    -> 500
      [] OTHER           -> 1300 - 200 * attempts

\* attempts_score; a missing attempts count is treated as 1.
AttemptsScore(attempts) ==
    CASE attempts = NONE -> 1000
      [] attempts <= 1   -> 1000
      [] attempts = 2    -> 900
      [] attempts = 3    -> 700
      [] attempts = 4    -> 500
      [] OTHER           -> 300

\* Denominator that makes every component of one ScoreRecord an integer:
\* 1000 * expected_time_minutes (1000 when there is no usable expected time).
ScoreDen(expected_time) == IF expected_time > 0 THEN 1000 * expected_time ELSE 1000

\* Mutant: the scores at 100% and at 200% of the expected time are exchanged.
SpeedAnchorsExchanged ==
    [ half |-> 1000, expected |-> 500, double |-> 800, floor |-> 100 ]

\* The speed scores, in thousandths, at 50%, 100% and 200% of the expected
\* time, and the lowest score.
SpeedAnchors ==
    [ half |-> 1000, expected |-> 800, double |-> 500, floor |-> 100 ]

\* speed as a numerator over ScoreDen(expected_time).  With ratio = t / e:
\*   ratio <= 0.5      -> 1.0
\*   0.5 < ratio <= 1  -> 1.0 down to 0.8      (1.2 - 0.4 ratio)
\*   1 < ratio <= 2    -> 0.8 down to 0.5      (1.1 - 0.3 ratio)
\*   ratio > 2         -> 0.5 down to the floor (0.7 - 0.1 ratio, at least 0.1)
\* expected_time <= 0 is scored as ratio = 1; a missing time as 0.1.
SpeedScore(time_taken, expected_time) ==
    LET e == IF expected_time > 0 THEN expected_time ELSE 1
        t == IF expected_time > 0 THEN time_taken ELSE 1
        A == SpeedAnchors
    IN  IF time_taken = NONE THEN A.floor * e
        ELSE IF 2 * t <= e THEN A.half * e
        ELSE IF t <= e THEN A.half * e - (A.half - A.expected) * (2 * t - e)
        ELSE IF t <= 2 * e THEN A.expected * e - (A.expected - A.double) * (t - e)
        ELSE Max(A.floor * e, A.double * e - 100 * (t - 2 * e))

\* SCORING_WEIGHTS, in hundredths.
WeightCorrectness == 35
WeightEfficiency == 30
WeightSpeed == 20
WeightAttempts == 15

\* 100 * (0.35 c + 0.30 e + 0.20 s + 0.15 a), as a numerator over the
\* components' denominator.
WeightedSum(c, e, s, a) ==
    WeightCorrectness * c + WeightEfficiency * e + WeightSpeed * s
        + WeightAttempts * a

\* round(n / d) for n >= 0, d > 0, halves rounded up.
Round(n, d) == (2 * n + d) \div (2 * d)

Clamp(x, lo, hi) == Max(lo, Min(hi, x))

\* The Scorer: one Submission and its ProblemMeta to a ScoreRecord.
ScoreSubmissionRecord(s, m) ==
    LET den == ScoreDen(m.expected_time_minutes)
        k   == den \div 1000
        c   == k * CorrectnessScore(s.passed)
        e   == k * EfficiencyScore(s.passed, s.reported_complexity,
                                   m.expected_complexity)
        sp  == SpeedScore(s.time_taken_minutes, m.expected_time_minutes)
        a   == k * AttemptsScore(s.attempts)
    IN  [ den            |-> den,
          correctness    |-> c,
          efficiency     |-> e,
          speed          |-> sp,
          attempts_score |-> a,
          total          |-> Clamp(Round(WeightedSum(c, e, sp, a), den), 0, 100) ]

NoScore == [ den |-> 0 ]

(***************************************************************************)
(* Scorer inputs                                                           *)
(***************************************************************************)

\* Reported complexities: the ladder, an unrecognized string and a missing one.
ReportedInputs ==
    { ComplexityHierarchy[i] : i \in 1..Len(ComplexityHierarchy) }
        \cup { "O(n^5)", "" }

ExpectedInputs ==
    { ComplexityHierarchy[i] : i \in 1..Len(ComplexityHierarchy) }
        \cup { "O(n^5)" }

\* Expected time limits: easy 15, medium 30, hard 45; 0 for a malformed entry.
ExpectedTimeInputs == { 0, 15, 30, 45 }

TimeInputs == { NONE, 0, 7, 8, 15, 16, 30, 31, 46, 90, 91, 300 }

AttemptInputs == { NONE, 0, 1, 2, 3, 4, 5, 9 }

ScorerSubmissions ==
    [ passed : BOOLEAN,
      attempts : AttemptInputs,
      time_taken_minutes : TimeInputs,
      reported_complexity : ReportedInputs ]

ScorerMetas ==
    [ expected_complexity : ExpectedInputs,
      expected_time_minutes : ExpectedTimeInputs ]

(***************************************************************************)
(* 3. Data model: catalog and submissions                                  *)
(***************************************************************************)

Difficulties == << "easy", "medium", "hard" >>

DifficultyLevel(d) == CHOOSE i \in 1..Len(Difficulties) : Difficulties[i] = d

\* Expected time limits per difficulty (minutes).
ExpectedTimeEasy == 15
ExpectedTimeMedium == 30
ExpectedTimeHard == 45

ExpectedTime(d) ==
    CASE d = "easy"   -> ExpectedTimeEasy
      [] d = "medium" -> ExpectedTimeMedium
      [] d = "hard"   -> ExpectedTimeHard

\* Topic names in lexicographic order; TopicIndex stands for string comparison.
TopicNames == << "arrays", "dynamic_programming", "graphs", "trees" >>

TopicIndex(t) == CHOOSE i \in 1..Len(TopicNames) : TopicNames[i] = t

Problem(id, t, d, c) ==
    [ problem_id |-> id, topic |-> t, difficulty |-> d,
      expected_complexity |-> c, expected_time_minutes |-> ExpectedTime(d) ]

\* Catalogs handed to the core: an empty one, one easy problem per topic
\* of {arrays, graphs, trees}, and a catalog with several difficulties.
EmptyCatalog == << >>

SmallCatalog ==
    << Problem("a1", "arrays", "easy", "O(n)"),
       Problem("g1", "graphs", "easy", "O(n)"),
       Problem("t1", "trees", "easy", "O(n)") >>

FullCatalog ==
    << Problem("a1", "arrays", "easy", "O(n)"),
       Problem("a2", "arrays", "easy", "O(n)"),
       Problem("a3", "arrays", "easy", "O(n log n)"),
       Problem("a4", "arrays", "easy", "O(n)"),
       Problem("a5", "arrays", "easy", "O(1)"),
       Problem("a6", "arrays", "easy", "O(n)"),
       Problem("a7", "arrays", "medium", "O(n log n)"),
       Problem("a8", "arrays", "hard", "O(n^2)"),
       Problem("d1", "dynamic_programming", "easy", "O(n)"),
       Problem("d2", "dynamic_programming", "medium", "O(n^2)"),
       Problem("g1", "graphs", "easy", "O(n)"),
       Problem("t1", "trees", "easy", "O(n)") >>

\* A catalog with enough arrays problems to master medium and several easy
\* dynamic_programming problems.
DeepCatalog ==
    << Problem("a1", "arrays", "easy", "O(n)"),
       Problem("a2", "arrays", "easy", "O(n)"),
       Problem("a3", "arrays", "easy", "O(n log n)"),
       Problem("a4", "arrays", "easy", "O(n)"),
       Problem("a5", "arrays", "easy", "O(1)"),
       Problem("a6", "arrays", "easy", "O(n)"),
       Problem("m1", "arrays", "medium", "O(n)"),
       Problem("m2", "arrays", "medium", "O(n log n)"),
       Problem("m3", "arrays", "medium", "O(n)"),
       Problem("m4", "arrays", "medium", "O(n^2)"),
       Problem("a8", "arrays", "hard", "O(n^2)"),
       Problem("d1", "dynamic_programming", "easy", "O(n)"),
       Problem("d3", "dynamic_programming", "easy", "O(n)"),
       Problem("d4", "dynamic_programming", "easy", "O(n^2)"),
       Problem("d2", "dynamic_programming", "medium", "O(n^2)") >>

Catalogs == { EmptyCatalog, SmallCatalog, FullCatalog, DeepCatalog }

CatalogTopics(cat) == { cat[i].topic : i \in 1..Len(cat) }

\* The catalog entry of a problem id (the id is in the catalog).
MetaOf(cat, id) == cat[CHOOSE i \in 1..Len(cat) : cat[i].problem_id = id]

\* What the learner reports about one attempt.  Four kinds of attempt:
\*   "fail":    not solved, five attempts, 90 minutes, factorial complexity;
\*   "poor":    solved the same way;
\*   "good":    solved at the first attempt in 7 minutes with the expected
\*              complexity;
\*   "retried": solved like "good", but at the third attempt.
\* Outcomes are the kinds a run appends; "retried" occurs in the initial
\* histories only.
Outcomes == { "fail", "poor", "good" }

\* The submission the form builds for the selected problem: topic,
\* difficulty and expected complexity are copied from the catalog entry.
MakeSubmission(p, outcome) ==
    [ problem_id          |-> p.problem_id,
      topic               |-> p.topic,
      difficulty          |-> p.difficulty,
      passed              |-> outcome # "fail",
      attempts            |-> CASE outcome = "good"    -> 1
                                [] outcome = "retried" -> 3
                                [] OTHER               -> 5,
      time_taken_minutes  |-> IF outcome \in { "good", "retried" } THEN 7 ELSE 90,
      reported_complexity |-> IF outcome \in { "good", "retried" }
                              THEN p.expected_complexity
                              ELSE "O(n!)" ]

(***************************************************************************)
(* 4.3 Performance Analyzer                                                *)
(***************************************************************************)

\* Indices of the submissions of one topic.
TopicRows(hist, t) == { i \in 1..Len(hist) : hist[i].topic = t }

RECURSIVE SumOver(_, _)
\* Sum of f[i] over the finite index set S.
SumOver(f, S) ==
    IF S = {} THEN 0
    ELSE LET i == CHOOSE x \in S : TRUE
         IN  f[i] + SumOver(f, S \ {i})

\* ScoreRecord.total of every submission of the history.
Totals(hist, cat) ==
    [ i \in 1..Len(hist) |->
        ScoreSubmissionRecord(hist[i], MetaOf(cat, hist[i].problem_id)).total ]

\* efficiency of every submission, in thousandths.
Efficiencies(hist, cat) ==
    [ i \in 1..Len(hist) |->
        EfficiencyScore(hist[i].passed, hist[i].reported_complexity,
                        MetaOf(cat, hist[i].problem_id).expected_complexity) ]

\* Mutant: solved counts the passed submissions, not the problems solved.
SolvedCountPerSubmission(hist, rows) ==
    Cardinality({ i \in rows : hist[i].passed })

\* solved: the problems with at least one passed submission, each once.
SolvedCount(hist, rows) ==
    Cardinality({ hist[i].problem_id : i \in { j \in rows : hist[j].passed } })

\* attempted: the submissions of the topic.
AttemptedCount(hist, rows) == Cardinality(rows)

\* The TopicProfile of topic t.  accuracy is solved / attempted,
\* average_score is score_sum / attempted, average_efficiency is
\* eff_sum / (1000 attempted), the average attempts attempts_sum / attempted.
TopicProfileOf(hist, cat, t) ==
    LET rows == TopicRows(hist, t)
    IN  [ topic        |-> t,
          attempted    |-> AttemptedCount(hist, rows),
          solved       |-> SolvedCount(hist, rows),
          score_sum    |-> SumOver(Totals(hist, cat), rows),
          eff_sum      |-> SumOver(Efficiencies(hist, cat), rows),
          attempts_sum |-> SumOver([ i \in 1..Len(hist) |->
                                       IF hist[i].attempts = NONE THEN 1
                                       ELSE hist[i].attempts ], rows),
          difficulty_distribution |->
              [ d \in { "easy", "medium", "hard" } |->
                  Cardinality({ i \in rows : hist[i].difficulty = d }) ] ]

\* accuracy >= n / d, with accuracy 0 when nothing was attempted.
AccuracyAtLeast(tp, n, d) ==
    tp.attempted > 0 /\ d * tp.solved >= n * tp.attempted

\* average_score >= x, with average 0 when nothing was attempted.
AverageScoreAtLeast(tp, x) ==
    tp.attempted > 0 /\ tp.score_sum >= x * tp.attempted

\* Weakness threshold: accuracy below 50% or average score below 40.
WeakAccuracyPct == 50
WeakScore == 40
\* Progression threshold: accuracy at least 70% and average score at least 70.
StrongAccuracyPct == 70
StrongScore == 70

\* Mutant: the weakness cut-off on accuracy is raised to the mastery
\* level of easy problems (80%).
IsWeakWide(tp) ==
    /\ tp.attempted >= 1
    /\ \/ ~AccuracyAtLeast(tp, 80, 100)
       \/ ~AverageScoreAtLeast(tp, WeakScore)

IsWeak(tp) ==
    /\ tp.attempted >= 1
    /\ \/ ~AccuracyAtLeast(tp, WeakAccuracyPct, 100)
       \/ ~AverageScoreAtLeast(tp, WeakScore)

IsStrong(tp) ==
    /\ AccuracyAtLeast(tp, StrongAccuracyPct, 100)
    /\ AverageScoreAtLeast(tp, StrongScore)

\* SKILL_LEVEL_THRESHOLDS: lower ends of intermediate and advanced.
IntermediateFrom == 40
AdvancedFrom == 70

\* Mutant: the bands are closed at their upper ends.
SkillLevelClosedAbove(sum, count) ==
    IF count = 0 \/ sum <= IntermediateFrom * count THEN "beginner"
    ELSE IF sum <= AdvancedFrom * count THEN "intermediate"
    ELSE "advanced"

\* skill_level of the overall score sum / count (0 when count = 0).
SkillLevel(sum, count) ==
    IF count = 0 \/ sum < IntermediateFrom * count THEN "beginner"
    ELSE IF sum < AdvancedFrom * count THEN "intermediate"
    ELSE "advanced"

\* Topics of the catalog in declaration order, each once.
RECURSIVE TopicsInOrder(_, _)
TopicsInOrder(cat, seen) ==
    IF cat = << >> THEN << >>
    ELSE IF Head(cat).topic \in seen THEN TopicsInOrder(Tail(cat), seen)
    ELSE << Head(cat).topic >>
             \o TopicsInOrder(Tail(cat), seen \cup { Head(cat).topic })

\* Numerator of overall_score: the topics' average_score weighted by
\* attempted, i.e. the sum of their score sums.
OverallSum(topics) ==
    SumOver([ t \in DOMAIN topics |-> topics[t].score_sum ], DOMAIN topics)

\* Mutant: the topics' sums are divided by the number of topics.
OverallCountOfTopics(topics) == Cardinality(DOMAIN topics)

\* Denominator of overall_score: the sum of the weights, the topics'
\* attempted counts.
OverallCount(topics) ==
    SumOver([ t \in DOMAIN topics |-> topics[t].attempted ], DOMAIN topics)

\* Mutant: the untried topics are looked for among the topics of the
\* history (those without a solved problem), not among the catalog's.
UntriedTopicsOfHistory(hist, cat) ==
    SelectSeq(TopicsInOrder(cat, {}),
              LAMBDA t : /\ \E i \in 1..Len(hist) : hist[i].topic = t
                         /\ \A i \in 1..Len(hist) :
                               hist[i].topic = t => ~hist[i].passed)

\* untried_topics: the catalog topics without a submission.
UntriedTopics(hist, cat) ==
    SelectSeq(TopicsInOrder(cat, {}),
              LAMBDA t : \A i \in 1..Len(hist) : hist[i].topic # t)

\* The Analyzer: history and catalog to a SkillProfile.
Analyze(hist, cat) ==
    LET attemptedTopics == { hist[i].topic : i \in 1..Len(hist) }
        topics == [ t \in attemptedTopics |-> TopicProfileOf(hist, cat, t) ]
        sum    == OverallSum(topics)
        count  == OverallCount(topics)
        \* overall_score as the exact fraction num / den; 0 / 1 when there
        \* is no submission, so that nothing is divided by zero.
        overall == [ num |-> sum, den |-> Max(count, 1) ]
    IN  [ topics         |-> topics,
          overall_sum    |-> sum,
          overall_count  |-> count,
          overall_score  |-> overall,
          skill_level    |-> SkillLevel(overall.num, overall.den),
          weak_topics    |-> { t \in attemptedTopics : IsWeak(topics[t]) },
          strong_topics  |-> { t \in attemptedTopics : IsStrong(topics[t]) },
          untried_topics |-> UntriedTopics(hist, cat) ]

NoProfile == [ topics |-> << >> ]

(***************************************************************************)
(* 4.4 Recommendation Engine                                               *)
(***************************************************************************)

\* RECOMMENDATION_CONFIG
MaxRecommendationsDefault == 5
WeaknessPriorityPct == 60
\* Max 2 problems per weak topic.
PerTopicCap == 2

\* Mutant: the rows of easy and medium are exchanged.
MasteryThresholdsSwapped(d) ==
    CASE d = "easy"   -> [ min_solved |-> 10, min_accuracy |-> 70, max_avg_attempts |-> 30 ]
      [] d = "medium" -> [ min_solved |-> 5,  min_accuracy |-> 80, max_avg_attempts |-> 20 ]
      [] d = "hard"   -> [ min_solved |-> 5,  min_accuracy |-> 60, max_avg_attempts |-> 40 ]

\* MASTERY_THRESHOLDS of the difficulty to leave: min_solved,
\* min_accuracy (percent), max_avg_attempts (tenths).
MasteryThresholds(d) ==
    CASE d = "easy"   -> [ min_solved |-> 5,  min_accuracy |-> 80, max_avg_attempts |-> 20 ]
      [] d = "medium" -> [ min_solved |-> 10, min_accuracy |-> 70, max_avg_attempts |-> 30 ]
      [] d = "hard"   -> [ min_solved |-> 5,  min_accuracy |-> 60, max_avg_attempts |-> 40 ]

\* The problem ids with a passed submission.
SolvedIds(hist) == { hist[i].problem_id : i \in { j \in 1..Len(hist) : hist[j].passed } }

\* Mutant: the solved set is not consulted.
IsUnsolvedAlways(p, solved) == TRUE

\* "Select unsolved problems".
IsUnsolved(p, solved) == p.problem_id \notin solved

Chosen(acc) == { acc[i].problem_id : i \in 1..Len(acc) }

\* Mutant: the hardest difficulty with a submission is taken.
ComfortableHardest(tp) ==
    IF \E l \in 1..3 : tp.difficulty_distribution[Difficulties[l]] > 0
    THEN CHOOSE l \in 1..3 :
            /\ tp.difficulty_distribution[Difficulties[l]] > 0
            /\ \A k \in (l + 1)..3 : tp.difficulty_distribution[Difficulties[k]] = 0
    ELSE 1

\* Easiest difficulty with a submission in the topic (easy if none).
Comfortable(tp) ==
    IF \E l \in 1..3 : tp.difficulty_distribution[Difficulties[l]] > 0
    THEN CHOOSE l \in 1..3 :
            /\ tp.difficulty_distribution[Difficulties[l]] > 0
            /\ \A k \in 1..(l - 1) : tp.difficulty_distribution[Difficulties[k]] = 0
    ELSE 1

\* Hardest difficulty with a submission in the topic (easy if none).
HighestAttempted(tp) ==
    IF \E l \in 1..3 : tp.difficulty_distribution[Difficulties[l]] > 0
    THEN CHOOSE l \in 1..3 :
            /\ tp.difficulty_distribution[Difficulties[l]] > 0
            /\ \A k \in (l + 1)..3 : tp.difficulty_distribution[Difficulties[k]] = 0
    ELSE 1

\* Mutant: the weak topics are served best first.
WeakBeforeDescending(a, b) ==
    LET sa == a.score_sum * b.attempted
        sb == b.score_sum * a.attempted
        ca == a.solved * b.attempted
        cb == b.solved * a.attempted
    IN  \/ sa > sb
        \/ sa = sb /\ ca < cb
        \/ sa = sb /\ ca = cb /\ TopicIndex(a.topic) < TopicIndex(b.topic)

\* Mutant: the topic name does not break the remaining ties.
WeakBeforeNoName(a, b) ==
    LET sa == a.score_sum * b.attempted
        sb == b.score_sum * a.attempted
        ca == a.solved * b.attempted
        cb == b.solved * a.attempted
    IN  \/ sa < sb
        \/ sa = sb /\ ca < cb

\* a is served before b among the weak topics: ascending average_score,
\* then ascending accuracy, then topic name.
WeakBefore(a, b) ==
    LET sa == a.score_sum * b.attempted
        sb == b.score_sum * a.attempted
        ca == a.solved * b.attempted
        cb == b.solved * a.attempted
    IN  \/ sa < sb
        \/ sa = sb /\ ca < cb
        \/ sa = sb /\ ca = cb /\ TopicIndex(a.topic) < TopicIndex(b.topic)

\* a is served before b among the strong topics: descending
\* average_score, then topic name.
StrongBefore(a, b) ==
    LET sa == a.score_sum * b.attempted
        sb == b.score_sum * a.attempted
    IN  \/ sa > sb
        \/ sa = sb /\ TopicIndex(a.topic) < TopicIndex(b.topic)

\* The orders in which an unordered collection S may be iterated.
Enumerations(S) ==
    { f \in [ 1..Cardinality(S) -> S ] :
        \A i, j \in 1..Cardinality(S) : f[i] = f[j] => i = j }

\* The order of strategy 1 (kind "weak") or of strategy 2 (kind "strong").
TopicBefore(kind, a, b) ==
    IF kind = "weak" THEN WeakBefore(a, b) ELSE StrongBefore(a, b)

\* A stable sort of the topics seq by TopicBefore: topics that it does not
\* order keep the order they have in seq.
StableSort(seq, prof, kind) ==
    LET n == Len(seq)
        before(x, y) == TopicBefore(kind, prof.topics[x], prof.topics[y])
        pos(i) == 1 + Cardinality({ j \in 1..n :
                        \/ before(seq[j], seq[i])
                        \/ ~before(seq[i], seq[j]) /\ j < i })
    IN  [ k \in 1..n |-> seq[CHOOSE i \in 1..n : pos(i) = k] ]

\* The weak topics, met in the order weakEnum, sorted for strategy 1.
WeakOrder(prof, weakEnum) == StableSort(weakEnum, prof, "weak")

\* The strong topics, met in the order strongEnum, sorted for strategy 2.
StrongOrder(prof, strongEnum) == StableSort(strongEnum, prof, "strong")

Take(seq, n) == SubSeq(seq, 1, Min(n, Len(seq)))

Recommendation(p, reason) ==
    [ problem_id |-> p.problem_id, difficulty |-> p.difficulty,
      topic |-> p.topic, reason |-> reason ]

Tagged(ps, reason) == [ i \in 1..Len(ps) |-> Recommendation(ps[i], reason) ]

\* Mutant: weakness reinforcement may use the whole budget.
WeaknessQuotaWhole(n) == n

\* Share of the budget n given to weakness reinforcement: 60%, rounded up.
WeaknessQuota(n) == (WeaknessPriorityPct * n + 99) \div 100

\* Strategy 1: up to PerTopicCap unsolved problems at or below the
\* comfortable difficulty for each weak topic, until the quota is used.
RECURSIVE WeaknessRecs(_, _, _, _, _, _)
WeaknessRecs(order, prof, cat, solved, acc, quota) ==
    IF order = << >> \/ Len(acc) >= quota THEN acc
    ELSE LET t     == Head(order)
             level == Comfortable(prof.topics[t])
             cands == SelectSeq(cat, LAMBDA p :
                         /\ p.topic = t
                         /\ IsUnsolved(p, solved)
                         /\ p.problem_id \notin Chosen(acc)
                         /\ DifficultyLevel(p.difficulty) <= level)
             picks == Take(cands, Min(PerTopicCap, quota - Len(acc)))
         IN  WeaknessRecs(Tail(order), prof, cat, solved,
                          acc \o Tagged(picks, "weakness_reinforcement"), quota)

\* The three mastery thresholds of the topic's highest attempted difficulty.
MasteryMet(tp) ==
    LET th == MasteryThresholds(Difficulties[HighestAttempted(tp)])
    IN  /\ tp.solved >= th.min_solved
        /\ AccuracyAtLeast(tp, th.min_accuracy, 100)
        /\ 10 * tp.attempts_sum <= th.max_avg_attempts * tp.attempted

\* Mutant: progression skips a difficulty.
NextDifficultySkipping(level) == level + 2

\* "Move to next difficulty level".
NextDifficulty(level) == level + 1

\* Strategy 2: one unsolved problem one level above the highest attempted
\* difficulty for each strong topic whose mastery thresholds are met.
RECURSIVE ProgressionRecs(_, _, _, _, _, _)
ProgressionRecs(order, prof, cat, solved, acc, n) ==
    IF order = << >> \/ Len(acc) >= n THEN acc
    ELSE LET t     == Head(order)
             tp    == prof.topics[t]
             level == HighestAttempted(tp)
             cands == SelectSeq(cat, LAMBDA p :
                         /\ p.topic = t
                         /\ IsUnsolved(p, solved)
                         /\ p.problem_id \notin Chosen(acc)
                         /\ DifficultyLevel(p.difficulty) = NextDifficulty(level))
             picks == IF level < 3 /\ MasteryMet(tp) THEN Take(cands, 1) ELSE << >>
         IN  ProgressionRecs(Tail(order), prof, cat, solved,
                             acc \o Tagged(picks, "progression"), n)

\* Mutant: exploration gives every untried topic its problem and does
\* not look at the budget.
ExplorationBudgetLeftAlways(acc, n) == TRUE

\* Exploration goes on while the budget is not exhausted.
ExplorationBudgetLeft(acc, n) == Len(acc) < n

\* Mutant: exploration starts a new topic with a medium problem.
ExplorationDifficultyMedium == "medium"

\* "Start with easy problems".
ExplorationDifficulty == "easy"

\* Strategy 3: one unsolved easy problem for each untried topic.
RECURSIVE ExplorationRecs(_, _, _, _, _)
ExplorationRecs(order, cat, solved, acc, n) ==
    IF order = << >> \/ ~ExplorationBudgetLeft(acc, n) THEN acc
    ELSE LET t     == Head(order)
             cands == SelectSeq(cat, LAMBDA p :
                         /\ p.topic = t
                         /\ IsUnsolved(p, solved)
                         /\ p.problem_id \notin Chosen(acc)
                         /\ p.difficulty = ExplorationDifficulty)
         IN  ExplorationRecs(Tail(order), cat, solved,
                             acc \o Tagged(Take(cands, 1), "exploration"), n)

\* Mutant: progression is run before weakness reinforcement.
StrategyOrderProgressionFirst ==
    << "progression", "weakness_reinforcement", "exploration" >>

\* The fixed priority order of the strategies.
StrategyOrder == << "weakness_reinforcement", "progression", "exploration" >>

\* One strategy, run to its end on the list acc chosen so far.
RunStrategy(name, prof, cat, solved, acc, n, weakEnum, strongEnum) ==
    CASE name = "weakness_reinforcement" ->
            WeaknessRecs(WeakOrder(prof, weakEnum), prof, cat, solved, acc,
                         Min(n, WeaknessQuota(n)))
      [] name = "progression" ->
            ProgressionRecs(StrongOrder(prof, strongEnum), prof, cat, solved,
                            acc, n)
      [] name = "exploration" ->
            ExplorationRecs(prof.untried_topics, cat, solved, acc, n)

\* The engine: the three strategies in their fixed order; rank is the
\* 1-based position in the final list.  weakEnum and strongEnum are the
\* orders in which the sets weak_topics and strong_topics happen to be
\* iterated before they are sorted.
Recommend(prof, cat, solved, n, weakEnum, strongEnum) ==
    LET s1 == RunStrategy(StrategyOrder[1], prof, cat, solved, << >>, n,
                          weakEnum, strongEnum)
        s2 == RunStrategy(StrategyOrder[2], prof, cat, solved, s1, n,
                          weakEnum, strongEnum)
        s3 == RunStrategy(StrategyOrder[3], prof, cat, solved, s2, n,
                          weakEnum, strongEnum)
    IN  [ i \in 1..Len(s3) |->
            [ problem_id |-> s3[i].problem_id, difficulty |-> s3[i].difficulty,
              topic |-> s3[i].topic, reason |-> s3[i].reason, rank |-> i ] ]

(***************************************************************************)
(* Narration: the LLM service decorates the list the engine has chosen.    *)
(***************************************************************************)

NoResponse == [ ok |-> FALSE, recommended_problems |-> << >>, asked |-> FALSE ]

\* The call failed (timeout, service down, unparsable answer).
LLMFailure == [ ok |-> FALSE, recommended_problems |-> << >>, asked |-> TRUE ]

LLMAnswer(entries) ==
    [ ok |-> TRUE, recommended_problems |-> entries, asked |-> TRUE ]

\* One entry of the LLM's answer: a problem and free text about it.
LLMEntry(p) ==
    [ problem_id |-> p.problem_id, difficulty |-> p.difficulty,
      topic |-> p.topic, reason |-> << "practice", p.topic >> ]

Reverse(seq) == [ i \in 1..Len(seq) |-> seq[Len(seq) + 1 - i] ]

\* What the LLM service may answer when asked to narrate the list rs:
\* nothing (failure), the list entry by entry, the list in another order,
\* only its first entry, problems of its own choice, or the list followed
\* by a problem of its own choice.
LLMResponses(rs, cat) ==
    LET echo == [ i \in 1..Len(rs) |-> LLMEntry(rs[i]) ]
        own  == [ i \in 1..Len(rs) |-> LLMEntry(cat[Len(cat) + 1 - i]) ]
    IN  { LLMFailure, LLMAnswer(echo), LLMAnswer(Reverse(echo)),
          LLMAnswer(Take(echo, 1)), LLMAnswer(own),
          LLMAnswer(echo \o Take(own, 1)) }

\* Mutant: when the LLM answered, its list is handed on.
NarrateFollowingAnswer(list, response) ==
    IF ~response.ok
    THEN [ i \in 1..Len(list) |->
             [ problem_id |-> list[i].problem_id,
               difficulty |-> list[i].difficulty,
               topic      |-> list[i].topic,
               reason     |-> list[i].reason,
               rank       |-> list[i].rank,
               narration  |-> << >> ] ]
    ELSE [ i \in 1..Len(response.recommended_problems) |->
             [ problem_id |-> response.recommended_problems[i].problem_id,
               difficulty |-> response.recommended_problems[i].difficulty,
               topic      |-> response.recommended_problems[i].topic,
               reason     |-> "ai",
               rank       |-> i,
               narration  |-> response.recommended_problems[i].reason ] ]

\* narrate(recommendations): every entry of the engine's list keeps its
\* place and its fields and gets the text the LLM wrote about its problem,
\* or no text (the no-op default) when the call failed or the answer does
\* not mention the problem.
Narrate(list, response) ==
    [ i \in 1..Len(list) |->
        LET r    == list[i]
            es   == response.recommended_problems
            hits == { k \in 1..Len(es) : es[k].problem_id = r.problem_id }
        IN  [ problem_id |-> r.problem_id,
              difficulty |-> r.difficulty,
              topic      |-> r.topic,
              reason     |-> r.reason,
              rank       |-> r.rank,
              narration  |-> IF response.ok /\ hits # {}
                             THEN es[CHOOSE k \in hits : \A j \in hits : k <= j].reason
                             ELSE << >> ] ]

(***************************************************************************)
(* Specification of the Scorer: the inputs are drawn by Init and the       *)
(* Scorer is applied to them.                                              *)
(***************************************************************************)

PipelineIdle ==
    /\ catalog = EmptyCatalog
    /\ history = << >>
    /\ profile = NoProfile
    /\ recs = << >>
    /\ maxRecs = 0
    /\ llm = NoResponse
    /\ narrated = << >>
    /\ pc = << "scorer", 0 >>

ScorerInit ==
    /\ sub \in ScorerSubmissions
    /\ meta \in ScorerMetas
    /\ score = NoScore
    /\ PipelineIdle
    /\ FrontendIdle

ScoreSubmission ==
    /\ pc[1] = "scorer"
    /\ score = NoScore
    /\ score' = ScoreSubmissionRecord(sub, meta)
    /\ UNCHANGED << frontendVars, sub, meta, pipelineVars >>

ScorerNext == ScoreSubmission

ScorerSpec == ScorerInit /\ [][ScorerNext]_vars

(***************************************************************************)
(* Specification of the skill level: Init draws an overall score, the      *)
(* Analyzer's classification is applied to it.                              *)
(***************************************************************************)

\* Largest denominator of the overall scores that are drawn.
MaxSkillDen == 3

OverallScores ==
    { [ num |-> n, den |-> d ] : n \in 0..(100 * MaxSkillDen), d \in 1..MaxSkillDen }

SkillInit ==
    /\ sub = [ passed |-> FALSE ]
    /\ meta = [ expected_time_minutes |-> 0 ]
    /\ score = NoScore
    /\ catalog = EmptyCatalog
    /\ history = << >>
    /\ \E o \in OverallScores :
          /\ o.num <= 100 * o.den
          /\ profile = [ overall_score |-> o, skill_level |-> "" ]
    /\ recs = << >>
    /\ maxRecs = 0
    /\ llm = NoResponse
    /\ narrated = << >>
    /\ pc = << "skill", 0 >>
    /\ FrontendIdle

DetermineSkillLevel ==
    /\ pc = << "skill", 0 >>
    /\ profile' = [ profile EXCEPT !.skill_level =
                       SkillLevel(profile.overall_score.num,
                                  profile.overall_score.den) ]
    /\ pc' = << "skill", 1 >>
    /\ UNCHANGED << frontendVars, scorerVars, catalog, history, recs, maxRecs, llm, narrated >>

SkillNext == DetermineSkillLevel

SkillSpec == SkillInit /\ [][SkillNext]_vars

(***************************************************************************)
(* Specification of the request pipeline: the submission store grows, the  *)
(* Analyzer folds the history, the Engine ranks the next problems.          *)
(***************************************************************************)

\* Submissions appended to the initial history in one run.
MaxAppend == 1

History(cat, pairs) ==
    [ i \in 1..Len(pairs) |-> MakeSubmission(MetaOf(cat, pairs[i][1]), pairs[i][2]) ]

\* Histories the store holds when the run starts:
\*   none;
\*   six easy arrays problems solved;
\*   four dynamic_programming attempts with one problem solved;
\*   arrays solved three times out of four next to a failed graphs attempt;
\*   failed easy attempts in two topics next to medium and hard attempts;
\*   five easy and one medium arrays problems solved, one solved twice;
\*   six easy arrays problems solved, each at the third attempt.
InitialHistories ==
    { << >>,
      History(FullCatalog, << <<"a1", "good">>, <<"a2", "good">>, <<"a3", "good">>,
                              <<"a4", "good">>, <<"a5", "good">>, <<"a6", "good">> >>),
      History(FullCatalog, << <<"d1", "fail">>, <<"d1", "fail">>, <<"d2", "fail">>,
                              <<"d1", "poor">> >>),
      History(FullCatalog, << <<"a1", "good">>, <<"a2", "good">>, <<"a3", "good">>,
                              <<"a4", "fail">>, <<"g1", "fail">> >>),
      History(FullCatalog, << <<"g1", "fail">>, <<"t1", "fail">>, <<"d2", "poor">>,
                              <<"a7", "good">>, <<"a8", "fail">> >>),
      History(FullCatalog, << <<"a1", "good">>, <<"a2", "good">>, <<"a3", "good">>,
                              <<"a4", "good">>, <<"a5", "poor">>, <<"a1", "good">>,
                              <<"a7", "good">>, <<"t1", "poor">> >>),
      History(FullCatalog, << <<"a1", "retried">>, <<"a2", "retried">>,
                              <<"a3", "retried">>, <<"a4", "retried">>,
                              <<"a5", "retried">>, <<"a6", "retried">> >>) }

\* Histories against the deep catalog:
\*   six easy and four medium arrays problems solved;
\*   four dynamic_programming attempts with one problem solved;
\*   dynamic_programming and arrays with the same average score, 38, and
\*   the accuracies 1/3 and 2/5.
DeepHistories ==
    { History(DeepCatalog, << <<"a1", "good">>, <<"a2", "good">>, <<"a3", "good">>,
                              <<"a4", "good">>, <<"a5", "good">>, <<"a6", "good">>,
                              <<"m1", "good">>, <<"m2", "good">>, <<"m3", "good">>,
                              <<"m4", "good">> >>),
      History(DeepCatalog, << <<"d1", "fail">>, <<"d1", "fail">>, <<"d2", "fail">>,
                              <<"d1", "poor">> >>),
      History(DeepCatalog, << <<"d1", "fail">>, <<"d1", "fail">>, <<"d1", "good">>,
                              <<"m1", "fail">>, <<"m1", "fail">>, <<"m1", "fail">>,
                              <<"m2", "poor">>, <<"m3", "good">> >>) }

InitialHistoriesOf(cat) ==
    CASE cat = FullCatalog -> InitialHistories
      [] cat = DeepCatalog -> DeepHistories
      [] OTHER             -> { << >> }

\* Budgets the caller asks for.
Budgets == { 1, 3, MaxRecommendationsDefault }

Init ==
    /\ sub = [ passed |-> FALSE ]
    /\ meta = [ expected_time_minutes |-> 0 ]
    /\ score = NoScore
    /\ catalog \in Catalogs
    /\ history \in InitialHistoriesOf(catalog)
    /\ profile = NoProfile
    /\ recs = << >>
    /\ maxRecs = 0
    /\ llm = NoResponse
    /\ narrated = << >>
    /\ pc = << "collect", 0 >>
    /\ FrontendIdle

\* The learner logs an attempt at a problem of the catalog.
AppendSubmission ==
    /\ pc[1] = "collect"
    /\ pc[2] < MaxAppend
    /\ \E i \in 1..Len(catalog), o \in Outcomes :
          history' = Append(history, MakeSubmission(catalog[i], o))
    /\ pc' = << "collect", pc[2] + 1 >>
    /\ UNCHANGED << frontendVars, scorerVars, catalog, profile, recs, maxRecs, llm, narrated >>

\* The Analyzer is called on the history.
AnalyzePerformance ==
    /\ pc[1] = "collect"
    /\ profile' = Analyze(history, catalog)
    /\ pc' = << "analyzed", pc[2] >>
    /\ UNCHANGED << frontendVars, scorerVars, catalog, history, recs, maxRecs, llm, narrated >>

\* The Engine is called on the profile, the catalog and the solved set.
GenerateRecommendations ==
    /\ pc[1] = "analyzed"
    /\ \E n \in Budgets :
       \E weakEnum \in Enumerations(profile.weak_topics) :
       \E strongEnum \in Enumerations(profile.strong_topics) :
          /\ maxRecs' = n
          /\ recs' = Recommend(profile, catalog, SolvedIds(history), n,
                               weakEnum, strongEnum)
    /\ pc' = << "recommended", pc[2] >>
    /\ UNCHANGED << frontendVars, scorerVars, catalog, history, profile, llm, narrated >>

\* The API layer asks the LLM service to narrate the list the engine chose.
NarrateRecommendations ==
    /\ pc[1] = "recommended"
    /\ \E response \in LLMResponses(recs, catalog) :
          /\ llm' = response
          /\ narrated' = Narrate(recs, response)
    /\ pc' = << "narrated", pc[2] >>
    /\ UNCHANGED << frontendVars, scorerVars, catalog, history, profile, recs, maxRecs >>

\* Nothing is kept between requests.
NextRequest ==
    /\ pc[1] \in { "recommended", "narrated" }
    /\ profile' = NoProfile
    /\ recs' = << >>
    /\ maxRecs' = 0
    /\ llm' = NoResponse
    /\ narrated' = << >>
    /\ pc' = << "collect", pc[2] >>
    /\ UNCHANGED << frontendVars, scorerVars, catalog, history >>

Next ==
    \/ AppendSubmission
    \/ AnalyzePerformance
    \/ GenerateRecommendations
    \/ NarrateRecommendations
    \/ NextRequest

Spec == Init /\ [][Next]_vars

(***************************************************************************)
(* Properties                                                              *)
(***************************************************************************)

Returned == pc[1] = "recommended"
Analyzed == pc[1] \in { "analyzed", "recommended" }
Scored == score # NoScore

RecIds == { recs[i].problem_id : i \in 1..Len(recs) }

C2_AtMostBudget ==
    Returned =>
        /\ Len(recs) <= maxRecs
        /\ Cardinality(RecIds) = Len(recs)
        /\ RecIds \subseteq { catalog[i].problem_id : i \in 1..Len(catalog) }
        /\ catalog = EmptyCatalog => recs = << >>

\* C2 witness: the catalog is exhausted before the budget is: a non-empty
\* list shorter than max_recommendations is returned.
C2_Witness ==
    /\ Returned
    /\ recs # << >>
    /\ Len(recs) < maxRecs
    /\ catalog = SmallCatalog

\* C2 second case: the empty catalog yields the empty list.
C2_WitnessEmptyCatalog ==
    Returned /\ catalog = EmptyCatalog /\ recs = << >>

\* C3: the engine is deterministic: the returned list (problem ids, order,
\* reasons) is the one the engine computes from the same profile, catalog,
\* solved set and budget under every order in which the unordered sets
\* weak_topics and strong_topics can be iterated.
C3_Deterministic ==
    Returned =>
        \A weakEnum \in Enumerations(profile.weak_topics) :
        \A strongEnum \in Enumerations(profile.strong_topics) :
            recs = Recommend(profile, catalog, SolvedIds(history), maxRecs,
                             weakEnum, strongEnum)

\* C3 witness: two weak topics with the same average score and the same
\* accuracy both received a recommendation.
C3_Witness ==
    /\ Returned
    /\ \E i, j \in 1..Len(recs) :
          /\ i < j
          /\ recs[i].reason = "weakness_reinforcement"
          /\ recs[j].reason = "weakness_reinforcement"
          /\ recs[i].topic # recs[j].topic
          /\ LET a == profile.topics[recs[i].topic]
                 b == profile.topics[recs[j].topic]
             IN  /\ a.score_sum * b.attempted = b.score_sum * a.attempted
                 /\ a.solved * b.attempted = b.solved * a.attempted

\* The nine complexity classes, best to worst.
NineClasses ==
    { "O(1)", "O(log n)", "O(n)", "O(n log n)", "O(n^2)", "O(n^2 log n)",
      "O(n^3)", "O(2^n)", "O(n!)" }

\* C4: correctness, efficiency, speed and attempts_score all lie in [0,1],
\* total is round(100 (0.35 c + 0.30 e + 0.20 s + 0.15 a)) and lies in
\* [0,100], also for inputs with missing or malformed fields.
C4_ScoreRecordInRange ==
    Scored =>
        /\ score.den > 0
        /\ \A x \in { score.correctness, score.efficiency, score.speed,
                       score.attempts_score } : 0 <= x /\ x <= score.den
        /\ LET n == 35 * score.correctness + 30 * score.efficiency
                        + 20 * score.speed + 15 * score.attempts_score
           IN  /\ 2 * score.den * score.total <= 2 * n + score.den
               /\ 2 * n + score.den < 2 * score.den * (score.total + 1)
        /\ 0 <= score.total /\ score.total <= 100

\* C4 witness: a passed submission without attempts, time and complexity,
\* against a problem without a usable expected time, has been scored.
C4_Witness ==
    /\ Scored
    /\ sub.passed
    /\ sub.attempts = NONE
    /\ sub.time_taken_minutes = NONE
    /\ sub.reported_complexity = ""
    /\ meta.expected_time_minutes = 0
    /\ meta.expected_complexity = "O(n)"
    /\ score.total = 55

\* C5: efficiency is 0.0 for every failed submission whatever the two
\* complexities are, and 1.0, 0.8, 0.5, 0.3, 0.1 for a passed one that is
\* 0, 1, 2, 3, at least 4 levels worse than expected.
C5_EfficiencyByLevels ==
    Scored =>
        LET lw == levels_worse(sub.reported_complexity, meta.expected_complexity)
        IN  /\ ~sub.passed => score.efficiency = 0
            /\ sub.passed /\ lw = 0 => 10 * score.efficiency = 10 * score.den
            /\ sub.passed /\ lw = 1 => 10 * score.efficiency = 8 * score.den
            /\ sub.passed /\ lw = 2 => 10 * score.efficiency = 5 * score.den
            /\ sub.passed /\ lw = 3 => 10 * score.efficiency = 3 * score.den
            /\ sub.passed /\ lw >= 4 => 10 * score.efficiency = score.den

\* C5 witness: a failed submission whose reported complexity is better
\* than the expected one has been scored.
C5_Witness ==
    /\ Scored
    /\ ~sub.passed
    /\ sub.reported_complexity = "O(1)"
    /\ meta.expected_complexity = "O(n^2)"
    /\ score.efficiency = 0

\* C6: rank orders the nine classes strictly, O(1) < O(log n) < O(n) <
\* O(n log n) < O(n^2) < O(n^2 log n) < O(n^3) < O(2^n) < O(n!); every
\* other string gets the one sentinel rank above rank(O(n!)); and
\* levels_worse is max(0, rank(actual) - rank(expected)), never negative.
C6_RankTotalOrder ==
    /\ rank("O(1)") < rank("O(log n)")
    /\ rank("O(log n)") < rank("O(n)")
    /\ rank("O(n)") < rank("O(n log n)")
    /\ rank("O(n log n)") < rank("O(n^2)")
    /\ rank("O(n^2)") < rank("O(n^2 log n)")
    /\ rank("O(n^2 log n)") < rank("O(n^3)")
    /\ rank("O(n^3)") < rank("O(2^n)")
    /\ rank("O(2^n)") < rank("O(n!)")
    /\ LET a  == sub.reported_complexity
           e  == meta.expected_complexity
           lw == levels_worse(a, e)
       IN  /\ a \notin NineClasses =>
                 rank(a) > rank("O(n!)") /\ rank(a) = rank("O(n^5)")
           /\ e \notin NineClasses =>
                 rank(e) > rank("O(n!)") /\ rank(e) = rank("O(n^5)")
           /\ lw >= 0
           /\ lw = IF rank(a) > rank(e) THEN rank(a) - rank(e) ELSE 0

\* C6 witness: a submission with an unrecognized complexity is scored
\* against a problem whose expected complexity is on the ladder.
C6_Witness ==
    /\ Scored
    /\ sub.reported_complexity \notin NineClasses
    /\ meta.expected_complexity = "O(n!)"
    /\ levels_worse(sub.reported_complexity, meta.expected_complexity) = 1

\* C7: a submission with an unrecognized reported complexity gets
\* efficiency 0.1 when it passed and 0.0 when it failed, for every expected
\* complexity of the problem.
C7_UnrecognizedEfficiency ==
    Scored /\ sub.reported_complexity \notin NineClasses =>
        /\ score.den > 0
        /\ 0 <= score.total /\ score.total <= 100
        /\ 10 * score.efficiency = IF sub.passed THEN score.den ELSE 0

\* C8: no topic is both weak and strong; weak is attempted >= 1 and
\* (accuracy < 0.5 or average_score < 40), strong is accuracy >= 0.7 and
\* average_score >= 70, and a topic meeting neither is in neither set.
C8_WeakStrongDisjoint ==
    Analyzed =>
        /\ profile.weak_topics \cap profile.strong_topics = {}
        /\ profile.weak_topics \cup profile.strong_topics
              \subseteq DOMAIN profile.topics
        /\ \A t \in DOMAIN profile.topics :
              LET tp == profile.topics[t]
              IN  /\ t \in profile.weak_topics <=>
                        /\ tp.attempted >= 1
                        /\ \/ 2 * tp.solved < tp.attempted
                           \/ tp.score_sum < 40 * tp.attempted
                  /\ t \in profile.strong_topics <=>
                        /\ tp.attempted >= 1
                        /\ 10 * tp.solved >= 7 * tp.attempted
                        /\ tp.score_sum >= 70 * tp.attempted

\* C8 witness: one profile holds a weak topic, a strong topic and a topic
\* that is neither.
C8_Witness ==
    /\ Analyzed
    /\ profile.weak_topics # {}
    /\ profile.strong_topics # {}
    /\ \E t \in DOMAIN profile.topics :
          t \notin profile.weak_topics \cup profile.strong_topics

\* C9: the analysis of an empty history has no topic profile, overall
\* score 0, skill level beginner, no weak and no strong topic, and every
\* topic of the catalog (none for an empty catalog) as untried.
C9_EmptyHistory ==
    Analyzed /\ history = << >> =>
        /\ DOMAIN profile.topics = {}
        /\ profile.overall_score.num = 0
        /\ profile.skill_level = "beginner"
        /\ profile.weak_topics = {}
        /\ profile.strong_topics = {}
        /\ { profile.untried_topics[i] : i \in 1..Len(profile.untried_topics) }
              = { catalog[i].topic : i \in 1..Len(catalog) }

\* C9 witness: an empty history was analyzed against a catalog with three
\* topics.
C9_Witness ==
    /\ Analyzed
    /\ history = << >>
    /\ Cardinality({ catalog[i].topic : i \in 1..Len(catalog) }) = 3
    /\ Len(profile.untried_topics) = 3

\* C10: every TopicProfile has attempted >= solved >= 0 and an accuracy in
\* [0,1]; solved counts each problem with a passed submission once,
\* however often it was submitted or passed.
C10_SolvedOncePerProblem ==
    Analyzed =>
        \A t \in DOMAIN profile.topics :
            LET tp == profile.topics[t]
            IN  /\ tp.attempted >= tp.solved
                /\ tp.solved >= 0
                /\ tp.attempted >= 1
                /\ tp.attempted =
                      Cardinality({ i \in 1..Len(history) : history[i].topic = t })
                /\ tp.solved =
                      Cardinality({ id \in { catalog[i].problem_id : i \in 1..Len(catalog) } :
                          \E i \in 1..Len(history) :
                              /\ history[i].topic = t
                              /\ history[i].problem_id = id
                              /\ history[i].passed })

\* C10 witness: a problem that was passed more than once, after a failed
\* attempt in the same topic, is in the analyzed history.
C10_Witness ==
    /\ Analyzed
    /\ \E i, j, k \in 1..Len(history) :
          /\ i < j
          /\ history[i].problem_id = history[j].problem_id
          /\ history[i].passed /\ history[j].passed
          /\ history[k].topic = history[i].topic /\ ~history[k].passed

\* C11: a learner without submissions, facing a catalog in which every
\* topic has an easy problem, gets exactly min(number of catalog topics,
\* max_recommendations) recommendations, all tagged exploration, all easy,
\* no two of one topic; for the topics arrays, graphs, trees and the
\* default budget that is exactly 3.
C11_NewUserExploration ==
    /\ Returned
    /\ history = << >>
    /\ \A t \in CatalogTopics(catalog) :
          \E k \in 1..Len(catalog) :
              catalog[k].topic = t /\ catalog[k].difficulty = "easy"
    => /\ Len(recs) = Min(Cardinality(CatalogTopics(catalog)), maxRecs)
       /\ \A i \in 1..Len(recs) :
             /\ recs[i].reason = "exploration"
             /\ recs[i].difficulty = "easy"
       /\ \A i, j \in 1..Len(recs) : i # j => recs[i].topic # recs[j].topic
       /\ CatalogTopics(catalog) = { "arrays", "graphs", "trees" }
             /\ maxRecs = MaxRecommendationsDefault => Len(recs) = 3

\* C11 witness: the new learner of the three-topic catalog was given three
\* recommendations under the default budget.
C11_Witness ==
    /\ Returned
    /\ history = << >>
    /\ CatalogTopics(catalog) = { "arrays", "graphs", "trees" }
    /\ maxRecs = MaxRecommendationsDefault
    /\ Len(recs) = 3
    /\ \A i \in 1..3 : recs[i].reason = "exploration"

\* C11 second case: the budget is smaller than the number of topics.
C11_WitnessSmallBudget ==
    /\ Returned
    /\ history = << >>
    /\ maxRecs < Cardinality(CatalogTopics(catalog))
    /\ Len(recs) = maxRecs

\* The progression scenario: every submission is an easy arrays problem,
\* six problems are solved, the accuracy is 0.9 and the average score 85,
\* each to the nearest tenth resp. ten (0.85..0.95, 80..90).
ArraysScenario ==
    /\ Analyzed
    /\ history # << >>
    /\ \A i \in 1..Len(history) :
          history[i].topic = "arrays" /\ history[i].difficulty = "easy"
    /\ LET tp == profile.topics["arrays"]
       IN  /\ tp.solved = 6
           /\ 85 * tp.attempted <= 100 * tp.solved
           /\ 100 * tp.solved <= 95 * tp.attempted
           /\ 80 * tp.attempted <= tp.score_sum
           /\ tp.score_sum <= 90 * tp.attempted

UnsolvedMediumArrays ==
    \E k \in 1..Len(catalog) :
        /\ catalog[k].topic = "arrays"
        /\ catalog[k].difficulty = "medium"
        /\ catalog[k].problem_id \notin SolvedIds(history)

MediumArraysProgression ==
    \E i \in 1..Len(recs) :
        /\ recs[i].topic = "arrays"
        /\ recs[i].difficulty = "medium"
        /\ recs[i].reason = "progression"

\* C12 as stated: in the progression scenario arrays is strong and, when
\* the catalog holds an unsolved medium arrays problem, the returned list
\* contains a medium arrays problem tagged progression.
C12_ProgressionScenario ==
    ArraysScenario =>
        /\ "arrays" \in profile.strong_topics
        /\ Returned /\ UnsolvedMediumArrays => MediumArraysProgression

\* C12 amended: in the progression scenario arrays is strong; the medium
\* arrays problem tagged progression is in the returned list when the
\* learner also needed at most 2.0 attempts on average, the third mastery
\* threshold of easy, and it is not when the average is higher.
C12_ProgressionWhenMastered ==
    ArraysScenario =>
        LET tp == profile.topics["arrays"]
        IN  /\ "arrays" \in profile.strong_topics
            /\ Returned /\ UnsolvedMediumArrays =>
                  (MediumArraysProgression <=> tp.attempts_sum <= 2 * tp.attempted)

\* C12 witness: the scenario with an average of at most two attempts, and
\* the medium arrays problem in the list.
C12_Witness ==
    /\ ArraysScenario
    /\ Returned
    /\ profile.topics["arrays"].attempts_sum <= 2 * profile.topics["arrays"].attempted
    /\ MediumArraysProgression

Narrated == pc[1] = "narrated"

C13_WitnessFailure ==
    /\ Narrated
    /\ recs # << >>
    /\ llm = LLMFailure
    /\ \A i \in 1..Len(narrated) : narrated[i].narration = << >>

Classified == pc = << "skill", 1 >>

\* C14: skill_level is a total function of overall_score on [0,100] with
\* half-open bands: beginner for 0 <= score < 40, intermediate for
\* 40 <= score < 70, advanced for 70 <= score <= 100; exactly 40 is
\* intermediate, exactly 70 and exactly 100 are advanced, and every score
\* gets exactly one level.
C14_SkillLevelBands ==
    Classified =>
        LET n == profile.overall_score.num
            d == profile.overall_score.den
            l == profile.skill_level
        IN  /\ l \in { "beginner", "intermediate", "advanced" }
            /\ l = "beginner" <=> 0 <= n /\ n < 40 * d
            /\ l = "intermediate" <=> 40 * d <= n /\ n < 70 * d
            /\ l = "advanced" <=> 70 * d <= n /\ n <= 100 * d
            /\ n = 40 * d => l = "intermediate"
            /\ n = 70 * d => l = "advanced"
            /\ n = 100 * d => l = "advanced"

\* C14 witness: an overall score of exactly 40 has been classified as
\* intermediate.
C14_Witness ==
    /\ Classified
    /\ profile.overall_score = [ num |-> 40, den |-> 1 ]
    /\ profile.skill_level = "intermediate"

\* C14 further cases: exactly 70, exactly 100, and the largest score below
\* 40 with denominator 3.
C14_WitnessSeventy ==
    /\ Classified
    /\ profile.overall_score = [ num |-> 140, den |-> 2 ]
    /\ profile.skill_level = "advanced"

C14_WitnessHundred ==
    /\ Classified
    /\ profile.overall_score = [ num |-> 100, den |-> 1 ]
    /\ profile.skill_level = "advanced"

C14_WitnessBelowForty ==
    /\ Classified
    /\ profile.overall_score = [ num |-> 119, den |-> 3 ]
    /\ profile.skill_level = "beginner"

\* Place of a reason code in the priority order of the strategies.
ReasonPriority(reason) ==
    CASE reason = "weakness_reinforcement" -> 1
      [] reason = "progression"            -> 2
      [] reason = "exploration"            -> 3
      [] OTHER                             -> 0

\* C15: in every returned list all weakness_reinforcement recommendations
\* come before all progression recommendations, which come before all
\* exploration recommendations, and rank is the 1-based position in the
\* list.
C15_StrategyOrder ==
    Returned =>
        /\ \A i \in 1..Len(recs) :
              /\ recs[i].rank = i
              /\ ReasonPriority(recs[i].reason) \in 1..3
        /\ \A i, j \in 1..Len(recs) :
              i < j => ReasonPriority(recs[i].reason) <= ReasonPriority(recs[j].reason)

\* C15 witness: one list holds recommendations of all three strategies.
C15_Witness ==
    /\ Returned
    /\ \E i, j, k \in 1..Len(recs) :
          /\ i < j /\ j < k
          /\ recs[i].reason = "weakness_reinforcement"
          /\ recs[j].reason = "progression"
          /\ recs[k].reason = "exploration"

\* The weakness_reinforcement entries of the returned list for topic t.
WeaknessEntries(t) ==
    { i \in 1..Len(recs) :
        recs[i].reason = "weakness_reinforcement" /\ recs[i].topic = t }

AllWeaknessEntries ==
    { i \in 1..Len(recs) : recs[i].reason = "weakness_reinforcement" }

\* Level (1 easy, 2 medium, 3 hard) of the easiest difficulty with a
\* non-zero count in the difficulty_distribution of tp; 1 if there is none.
EasiestAttempted(tp) ==
    IF tp.difficulty_distribution["easy"] > 0 THEN 1
    ELSE IF tp.difficulty_distribution["medium"] > 0 THEN 2
    ELSE IF tp.difficulty_distribution["hard"] > 0 THEN 3
    ELSE 1

LevelOf(d) == CASE d = "easy" -> 1 [] d = "medium" -> 2 [] d = "hard" -> 3

\* The unsolved catalog problems of weak topic t at or below its
\* comfortable difficulty.
EligibleForWeakness(t) ==
    { k \in 1..Len(catalog) :
        /\ catalog[k].topic = t
        /\ catalog[k].problem_id \notin SolvedIds(history)
        /\ LevelOf(catalog[k].difficulty) <= EasiestAttempted(profile.topics[t]) }

\* The weakness scenario: dynamic_programming, 4 attempted and 1 solved,
\* is the only weak topic.
DynamicProgrammingScenario ==
    /\ Returned
    /\ profile.weak_topics = { "dynamic_programming" }
    /\ profile.topics["dynamic_programming"].attempted = 4
    /\ profile.topics["dynamic_programming"].solved = 1

\* C16: no topic has more than 2 weakness_reinforcement recommendations
\* in a returned list, and the list holds at most ceil(0.6 *
\* max_recommendations) of them; when dynamic_programming (4 attempted, 1
\* solved) is the only weak topic and has an eligible unsolved problem, it
\* gets at least 1 and at most 2 such entries.
C16_WeaknessCapAndQuota ==
    Returned =>
        /\ \A t \in CatalogTopics(catalog) : Cardinality(WeaknessEntries(t)) <= 2
        /\ 10 * Cardinality(AllWeaknessEntries) <= 6 * maxRecs + 9
        /\ DynamicProgrammingScenario
              /\ EligibleForWeakness("dynamic_programming") # {}
             => /\ Cardinality(WeaknessEntries("dynamic_programming")) >= 1
                /\ Cardinality(WeaknessEntries("dynamic_programming")) <= 2

\* C16 witness: the weakness scenario with two eligible problems, both
\* recommended.
C16_Witness ==
    /\ DynamicProgrammingScenario
    /\ Cardinality(EligibleForWeakness("dynamic_programming")) >= 2
    /\ Cardinality(WeaknessEntries("dynamic_programming")) = 2

\* C16 second case: the per-topic cap, not the quota and not the catalog,
\* ends the entries of a topic.
C16_WitnessCap ==
    /\ Returned
    /\ \E t \in profile.weak_topics :
          /\ Cardinality(EligibleForWeakness(t)) > 2
          /\ Cardinality(WeaknessEntries(t)) = 2
          /\ Cardinality(AllWeaknessEntries) = 2
    /\ maxRecs = MaxRecommendationsDefault

\* C16 third case: the quota ends weakness reinforcement while a weak
\* topic still has an eligible problem.
C16_WitnessQuota ==
    /\ Returned
    /\ maxRecs = MaxRecommendationsDefault
    /\ Cardinality(AllWeaknessEntries) = 3
    /\ \E t \in profile.weak_topics :
          /\ Cardinality(WeaknessEntries(t)) < 2
          /\ \E k \in EligibleForWeakness(t) : catalog[k].problem_id \notin RecIds

\* Level of the hardest difficulty with a non-zero count in the
\* difficulty_distribution of tp.
HardestAttempted(tp) ==
    IF tp.difficulty_distribution["hard"] > 0 THEN 3
    ELSE IF tp.difficulty_distribution["medium"] > 0 THEN 2
    ELSE 1

\* C17: every progression recommendation is for a strong topic, is exactly
\* one difficulty above the hardest difficulty attempted in the topic
\* (none when that is hard), and is emitted only when the three mastery
\* thresholds of that hardest difficulty are met: easy needs solved >= 5,
\* accuracy >= 0.80, average attempts <= 2.0; medium needs solved >= 10,
\* accuracy >= 0.70, average attempts <= 3.0.
C17_ProgressionOneLevelUp ==
    Returned =>
        \A i \in 1..Len(recs) :
            recs[i].reason = "progression" =>
                /\ recs[i].topic \in profile.strong_topics
                /\ LET tp == profile.topics[recs[i].topic]
                       h  == HardestAttempted(tp)
                   IN  /\ h # 3
                       /\ LevelOf(recs[i].difficulty) = h + 1
                       /\ h = 1 => /\ tp.solved >= 5
                                   /\ 100 * tp.solved >= 80 * tp.attempted
                                   /\ tp.attempts_sum <= 2 * tp.attempted
                       /\ h = 2 => /\ tp.solved >= 10
                                   /\ 100 * tp.solved >= 70 * tp.attempted
                                   /\ tp.attempts_sum <= 3 * tp.attempted

\* C17 witness: a hard problem is recommended as progression to a learner
\* whose hardest attempted difficulty in the topic is medium.
C17_Witness ==
    /\ Returned
    /\ \E i \in 1..Len(recs) :
          /\ recs[i].reason = "progression"
          /\ recs[i].difficulty = "hard"
          /\ HardestAttempted(profile.topics[recs[i].topic]) = 2

\* C17 further cases: progression from easy to medium; a strong topic
\* whose hardest attempted difficulty is hard and that gets none; a strong
\* topic at medium with fewer than 10 problems solved that gets none.
C17_WitnessEasyToMedium ==
    /\ Returned
    /\ \E i \in 1..Len(recs) :
          /\ recs[i].reason = "progression"
          /\ recs[i].difficulty = "medium"
          /\ HardestAttempted(profile.topics[recs[i].topic]) = 1

C17_WitnessHardest ==
    /\ Returned
    /\ maxRecs = MaxRecommendationsDefault
    /\ \E t \in profile.strong_topics :
          /\ HardestAttempted(profile.topics[t]) = 3
          /\ \A i \in 1..Len(recs) : recs[i].reason # "progression"

C17_WitnessBlocked ==
    /\ Returned
    /\ maxRecs = MaxRecommendationsDefault
    /\ \E t \in profile.strong_topics :
          /\ HardestAttempted(profile.topics[t]) = 2
          /\ profile.topics[t].solved < 10
          /\ \E k \in 1..Len(catalog) :
                /\ catalog[k].topic = t
                /\ catalog[k].difficulty = "hard"
                /\ catalog[k].problem_id \notin SolvedIds(history)
          /\ \A i \in 1..Len(recs) : recs[i].reason # "progression"

\* C18: every weakness_reinforcement recommendation is for a weak topic
\* and its difficulty is at or below the topic's comfortable difficulty,
\* the easiest difficulty with a non-zero count in its
\* difficulty_distribution; a learner who attempted an easy problem of the
\* topic is given easy problems only.
C18_WeaknessAtComfortable ==
    Returned =>
        \A i \in 1..Len(recs) :
            recs[i].reason = "weakness_reinforcement" =>
                /\ recs[i].topic \in profile.weak_topics
                /\ LET tp == profile.topics[recs[i].topic]
                   IN  /\ LevelOf(recs[i].difficulty) <= EasiestAttempted(tp)
                       /\ tp.difficulty_distribution["easy"] > 0 =>
                              recs[i].difficulty = "easy"

\* C18 witness: a learner who attempted only a medium problem of a weak
\* topic is given an easy and a medium problem of it.
C18_Witness ==
    /\ Returned
    /\ \E i, j \in 1..Len(recs) :
          /\ recs[i].reason = "weakness_reinforcement"
          /\ recs[j].reason = "weakness_reinforcement"
          /\ recs[i].topic = recs[j].topic
          /\ recs[i].difficulty = "easy"
          /\ recs[j].difficulty = "medium"
          /\ EasiestAttempted(profile.topics[recs[i].topic]) = 2

\* C18 second case: the weak topic has attempts at easy and at medium, an
\* unsolved medium problem, and no weakness_reinforcement entry above easy.
C18_WitnessEasyOnly ==
    /\ Returned
    /\ \E t \in profile.weak_topics :
          /\ profile.topics[t].difficulty_distribution["easy"] > 0
          /\ profile.topics[t].difficulty_distribution["medium"] > 0
          /\ \E k \in 1..Len(catalog) :
                /\ catalog[k].topic = t
                /\ catalog[k].difficulty = "medium"
                /\ catalog[k].problem_id \notin SolvedIds(history)
          /\ WeaknessEntries(t) # {}
          /\ \A i \in WeaknessEntries(t) : recs[i].difficulty = "easy"

\* Topic a precedes topic b in the order of service of the weak topics:
\* ascending average_score, then ascending accuracy, then topic name.
ServedBefore(a, b) ==
    LET ta == profile.topics[a]
        tb == profile.topics[b]
    IN  \/ ta.score_sum * tb.attempted < tb.score_sum * ta.attempted
        \/ /\ ta.score_sum * tb.attempted = tb.score_sum * ta.attempted
           /\ ta.solved * tb.attempted < tb.solved * ta.attempted
        \/ /\ ta.score_sum * tb.attempted = tb.score_sum * ta.attempted
           /\ ta.solved * tb.attempted = tb.solved * ta.attempted
           /\ TopicIndex(a) < TopicIndex(b)

\* C19: weak topics are served in ascending average_score, ties broken by
\* ascending accuracy and then by topic name: when weak topic A precedes
\* weak topic B, every weakness_reinforcement recommendation of A is
\* ranked before every one of B, and B has one only if A has its 2 or
\* every eligible problem of A is in the list.
C19_WeakTopicOrder ==
    Returned =>
        \A a, b \in profile.weak_topics :
            a # b /\ ServedBefore(a, b) =>
                /\ \A i \in WeaknessEntries(a), j \in WeaknessEntries(b) : i < j
                /\ WeaknessEntries(b) # {} =>
                      \/ Cardinality(WeaknessEntries(a)) = 2
                      \/ \A k \in EligibleForWeakness(a) :
                            \E i \in WeaknessEntries(a) :
                                recs[i].problem_id = catalog[k].problem_id

\* C19 witness: two weak topics with different average scores both have a
\* recommendation, the one with the lower average first.
C19_Witness ==
    /\ Returned
    /\ \E i, j \in AllWeaknessEntries :
          /\ i < j
          /\ recs[i].topic # recs[j].topic
          /\ LET ta == profile.topics[recs[i].topic]
                 tb == profile.topics[recs[j].topic]
             IN  ta.score_sum * tb.attempted < tb.score_sum * ta.attempted

\* C19 further cases: the order is decided by the accuracy, resp. by the
\* topic name.
C19_WitnessAccuracy ==
    /\ Returned
    /\ \E i, j \in AllWeaknessEntries :
          /\ i < j
          /\ recs[i].topic # recs[j].topic
          /\ LET ta == profile.topics[recs[i].topic]
                 tb == profile.topics[recs[j].topic]
             IN  /\ ta.score_sum * tb.attempted = tb.score_sum * ta.attempted
                 /\ ta.solved * tb.attempted < tb.solved * ta.attempted

C19_WitnessName ==
    /\ Returned
    /\ \E i, j \in AllWeaknessEntries :
          /\ i < j
          /\ recs[i].topic # recs[j].topic
          /\ LET ta == profile.topics[recs[i].topic]
                 tb == profile.topics[recs[j].topic]
             IN  /\ ta.score_sum * tb.attempted = tb.score_sum * ta.attempted
                 /\ ta.solved * tb.attempted = tb.solved * ta.attempted

\* ScoreRecord.total of the submissions of the analyzed history, summed.
SumOfTotals ==
    SumOver(Totals(history, catalog), 1..Len(history))

\* C20: overall_score is the mean of the topics' average_score weighted by
\* attempted: for a non-empty history it lies in [0,100], between the
\* smallest and the largest topic average_score, and equals the plain mean
\* of ScoreRecord.total over all submissions; for an empty history it is 0
\* and nothing is divided by zero.
C20_OverallScoreIsMean ==
    Analyzed =>
        LET n == profile.overall_score.num
            d == profile.overall_score.den
        IN  /\ d >= 1
            /\ history = << >> => n = 0
            /\ history # << >> =>
                  /\ 0 <= n /\ n <= 100 * d
                  /\ n * Len(history) = SumOfTotals * d
                  /\ \E t \in DOMAIN profile.topics :
                        profile.topics[t].score_sum * d
                            <= n * profile.topics[t].attempted
                  /\ \E t \in DOMAIN profile.topics :
                        profile.topics[t].score_sum * d
                            >= n * profile.topics[t].attempted

\* C20 witness: topics with different average scores and different
\* attempted counts were analyzed, and the overall score is strictly
\* between the smallest and the largest topic average.
C20_Witness ==
    /\ Analyzed
    /\ \E a, b \in DOMAIN profile.topics :
          LET ta == profile.topics[a]
              tb == profile.topics[b]
              n  == profile.overall_score.num
              d  == profile.overall_score.den
          IN  /\ ta.attempted # tb.attempted
              /\ ta.score_sum * d < n * ta.attempted
              /\ tb.score_sum * d > n * tb.attempted

\* C20 second case: the empty history.
C20_WitnessEmpty ==
    /\ Analyzed
    /\ history = << >>
    /\ catalog # EmptyCatalog
    /\ profile.overall_score = [ num |-> 0, den |-> 1 ]

\* ratio = time_taken_minutes / expected_time_minutes as a fraction;
\* 1 / 1 when the expected time is not positive.
Ratio(t, e) == IF e > 0 THEN [ num |-> t, den |-> e ] ELSE [ num |-> 1, den |-> 1 ]

\* C21: the speed score never rises with ratio = time_taken_minutes /
\* expected_time_minutes, also across the breakpoints 0.5, 1.0 and 2.0:
\* for ratios r1 <= r2, speed(r1) >= speed(r2); it is 1.0 for
\* ratio <= 0.5, never below 0.1, and an expected time <= 0 is scored as
\* ratio = 1.
C21_SpeedMonotone ==
    Scored /\ sub.time_taken_minutes # NONE =>
        LET r1 == Ratio(sub.time_taken_minutes, meta.expected_time_minutes)
        IN  /\ \A t2 \in TimeInputs \ { NONE }, e2 \in ExpectedTimeInputs :
                  LET r2 == Ratio(t2, e2)
                  IN  r1.num * r2.den <= r2.num * r1.den =>
                          score.speed * ScoreDen(e2)
                              >= SpeedScore(t2, e2) * score.den
            /\ 2 * r1.num <= r1.den => score.speed = score.den
            /\ 10 * score.speed >= score.den
            /\ score.speed <= score.den
            /\ meta.expected_time_minutes <= 0 => 10 * score.speed = 8 * score.den
            /\ r1.num = r1.den => 10 * score.speed = 8 * score.den
            /\ r1.num = 2 * r1.den => 10 * score.speed = 5 * score.den

\* C21 witness: a submission just past twice the expected time is scored
\* below 0.5 and above the floor.
C21_Witness ==
    /\ Scored
    /\ sub.time_taken_minutes = 91
    /\ meta.expected_time_minutes = 45
    /\ 10 * score.speed < 5 * score.den
    /\ 10 * score.speed > score.den

\* C21 further cases: the floor is reached; the expected time is 0.
C21_WitnessFloor ==
    /\ Scored
    /\ sub.time_taken_minutes = 300
    /\ meta.expected_time_minutes = 15
    /\ 10 * score.speed = score.den

C21_WitnessNoExpectedTime ==
    /\ Scored
    /\ sub.time_taken_minutes = 300
    /\ meta.expected_time_minutes = 0
    /\ 10 * score.speed = 8 * score.den

(***************************************************************************)
(* Web client: the code editor (CodeEditor.js) inside App (App.js).        *)
(* A handler runs to its first await in one step; what follows the await   *)
(* is a later step, taken when the request settles.  A render and the      *)
(* effects it schedules are part of the step of the event that caused      *)
(* them.                                                                   *)
(***************************************************************************)

\* trim(): white space is removed at both ends.
IsWhiteSpace(ch) == ch = " "

RECURSIVE TrimStart(_)
TrimStart(text) ==
    IF text # << >> /\ IsWhiteSpace(Head(text))
    THEN TrimStart(Tail(text))
    ELSE text

RECURSIVE TrimEnd(_)
TrimEnd(text) ==
    IF text # << >> /\ IsWhiteSpace(text[Len(text)])
    THEN TrimEnd(SubSeq(text, 1, Len(text) - 1))
    ELSE text

Trim(text) == TrimEnd(TrimStart(text))

\* A string in a condition: undefined and '' are falsy.
Truthy(text) == text # undefined /\ text # EmptyCode

MinDraftLength == 10

AutoSaveDelayMs == 1500

\* The first line of autoSave: whether the code is saved at all.
ShouldSave(codeToSave) ==
    ~ ( ~ Truthy(codeToSave) \/ Len(Trim(codeToSave)) < MinDraftLength )

\* clearTimeout(id): the timeout with that id will not fire.
ClearTimeout(pending, id) == { t \in pending : t.id # id }

\* Mutant: the pending timeout is not cleared.
CancelPendingForgotten(pending, ref) == pending

\* if (autoSaveTimeoutRef.current) clearTimeout(autoSaveTimeoutRef.current)
CancelPending(pending, ref) ==
    IF ref # 0 THEN ClearTimeout(pending, ref) ELSE pending

\* getStarterCode(lang, funcName, pythonStarterCode): the Python starter
\* code of the problem, or the code generated from it for another language.
GetStarterCode(lang, data) ==
    IF lang = "python"
    THEN data.starter_code
    ELSE << "c", "l", "a", "s", "s", " ", "S", " ", "{", " " >>
             \o data.function_name \o << "(", ")", " ", "}" >>

\* data.starter_code || getStarterCode('python', ...)
InitialCode(data) ==
    IF Truthy(data.starter_code)
    THEN data.starter_code
    ELSE GetStarterCode("python", data)

\* Mutant: the buttons are disabled only while a run is in flight.
ButtonsDisabledWhileRunning(isRunning, isSubmitting) == isRunning

\* disabled={running || submitting} of the Run and Submit buttons.
ButtonsDisabled(isRunning, isSubmitting) == isRunning \/ isSubmitting

\* App renders CodeEditor (after the auth guard).
EditorMounted ==
    /\ currentUser # null
    /\ currentView = "editor"
    /\ selectedProblemId # NoProblemId

\* CodeEditor renders the editor, its buttons and the result panel, and not
\* 'Loading problem...' or 'Problem not found'.
EditorShown ==
    /\ EditorMounted
    /\ ~ loading
    /\ problem # null

\* Bound on the number of user gestures of a behaviour.
MaxClicks == 4

\* An async handler suspended at an await.  problemId, code and language are
\* the values its closure captured when the handler started.
Call(fn, at, id, data) ==
    [ id |-> clicks + 1, fn |-> fn, at |-> at, problemId |-> id,
      code |-> code, language |-> language, data |-> data, orphan |-> FALSE ]

\* What POST /run and POST /submit answer about the tests.
ExecutionResults(c) ==
    { [ req |-> c.id, problemId |-> c.problemId, passed |-> b, error |-> FALSE ] :
        b \in BOOLEAN }

\* { error: error.message || 'Failed to ...' }
ErrorResult(c) ==
    [ req |-> c.id, problemId |-> c.problemId, passed |-> FALSE, error |-> TRUE ]

AiAnalysis(c) == [ req |-> c.id, problemId |-> c.problemId ]

\* What GET /recommendations can answer: the ids of recommended_problems.
RecommendationLists == { << >>, << "p2", "p1" >> }

\* A draft a previous session left in localStorage.
OldDraft == [ code |-> LongCode \o << ";" >>, language |-> "python" ]

\* The user is logged in and looks at the problem list; no editor is
\* mounted yet.
EditorInit ==
    /\ sub = [ passed |-> FALSE ]
    /\ meta = [ expected_time_minutes |-> 0 ]
    /\ score = NoScore
    /\ PipelineIdle
    /\ currentUser = DemoUser
    /\ \E old \in { null, Stringify(OldDraft) } :
          localStorage = [ EmptyStorage EXCEPT
                             ![ "currentUser" ] = Stringify(DemoUser),
                             ![ DraftKey("p1") ] = old ]
    /\ currentView = "problems"
    /\ selectedProblemId = NoProblemId
    /\ refreshTrigger = 0
    /\ authCalls = {}
    /\ EditorIs(EditorInitial)
    /\ timers = {}
    /\ calls = {}
    /\ clicks = 0
    /\ idleMs = 0

\* Mutant: the effect forgets setResult(null).
ResetOnProblemChangeKeepsResult ==
    [ result |-> result, aiAnalysis |-> null, recommendations |-> null,
      language |-> "python" ]

\* What the effect of useEffect([problemId]) sets, whatever the problem.
ResetOnProblemChange ==
    [ result |-> null, aiAnalysis |-> null, recommendations |-> null,
      language |-> "python" ]

\* useEffect([problemId]) for the problem id, run on mount and after every
\* change of the prop: the state is reset, a pending auto-save is cleared
\* (by the cleanup of the previous run and again by the effect), and
\* loadProblem() runs to its first await.  pending is the set of timeouts
\* before the effect.
ProblemEffect(id, pending) ==
    /\ result' = ResetOnProblemChange.result
    /\ aiAnalysis' = ResetOnProblemChange.aiAnalysis
    /\ recommendations' = ResetOnProblemChange.recommendations
    /\ language' = ResetOnProblemChange.language
    /\ timers' = CancelPending(CancelPending(pending, autoSaveTimeoutRef),
                               autoSaveTimeoutRef)
    /\ loading' = TRUE
    /\ calls' = calls \cup { Call("loadProblem", "getProblem", id, null) }
    /\ startTimeRef' = clicks + 1
    /\ codeByLanguage' = [ l \in Languages |-> undefined ]

\* handleSelectProblem(id) from the problem list: the view becomes 'editor'
\* and a new CodeEditor is mounted.
HandleSelectProblem ==
    /\ currentUser # null
    /\ currentView = "problems"
    /\ clicks < MaxClicks
    /\ \E id \in ProblemIds :
          /\ selectedProblemId' = id
          /\ ProblemEffect(id, timers)
    /\ currentView' = "editor"
    /\ problem' = EditorInitial.problem
    /\ code' = EditorInitial.code
    /\ running' = EditorInitial.running
    /\ submitting' = EditorInitial.submitting
    /\ autoSaveTimeoutRef' = EditorInitial.autoSaveTimeoutRef
    /\ clicks' = clicks + 1
    /\ UNCHANGED << scorerVars, pipelineVars, localStorage, currentUser,
                    refreshTrigger, authCalls, idleMs >>

\* handleBack (the Back button), or handleNavClick of the header with another
\* view: the editor is unmounted.  The cleanup of its effect clears the
\* pending auto-save, its state is gone, and what its suspended handlers set
\* later is set on no component.
HandleBack ==
    /\ EditorMounted
    /\ clicks < MaxClicks
    /\ currentView' = "problems"
    /\ selectedProblemId' = NoProblemId
    /\ timers' = CancelPending(timers, autoSaveTimeoutRef)
    /\ calls' = { [ c EXCEPT !.orphan = TRUE ] : c \in calls }
    /\ problem' = EditorInitial.problem
    /\ code' = EditorInitial.code
    /\ language' = EditorInitial.language
    /\ loading' = EditorInitial.loading
    /\ running' = EditorInitial.running
    /\ submitting' = EditorInitial.submitting
    /\ result' = EditorInitial.result
    /\ aiAnalysis' = EditorInitial.aiAnalysis
    /\ recommendations' = EditorInitial.recommendations
    /\ codeByLanguage' = EditorInitial.codeByLanguage
    /\ autoSaveTimeoutRef' = EditorInitial.autoSaveTimeoutRef
    /\ startTimeRef' = EditorInitial.startTimeRef
    /\ clicks' = clicks + 1
    /\ UNCHANGED << scorerVars, pipelineVars, localStorage, currentUser,
                    refreshTrigger, authCalls, idleMs >>

\* A recommendation of the result panel is clicked (one of the first three):
\* onSelectProblem(id), that is handleSelectProblem(id) of App.  The editor
\* stays mounted; when the id differs from the current one the effect runs.
ClickRecommendation ==
    /\ EditorShown
    /\ recommendations # null
    /\ clicks < MaxClicks
    /\ \E i \in 1..Min(3, Len(recommendations.recommended_problems)) :
          LET id == recommendations.recommended_problems[i]
          IN  /\ selectedProblemId' = id
              /\ IF id # selectedProblemId
                 THEN ProblemEffect(id, timers)
                 ELSE UNCHANGED << result, aiAnalysis, recommendations, language,
                                   timers, loading, calls, startTimeRef,
                                   codeByLanguage >>
    /\ clicks' = clicks + 1
    /\ UNCHANGED << scorerVars, pipelineVars, localStorage, currentUser,
                    currentView, refreshTrigger, authCalls, problem, code,
                    running, submitting, autoSaveTimeoutRef, idleMs >>

\* A state setter called by a suspended handler: it sets the state of the
\* component the handler belongs to, and nothing once that is unmounted.
SetState(c, value, current) == IF c.orphan THEN current ELSE value

\* loadProblem after 'await getProblem(problemId)': the problem is set and
\* the draft is requested, or the request failed and loading ends.
GetProblemSettles ==
    \E c \in calls :
       /\ c.fn = "loadProblem"
       /\ c.at = "getProblem"
       /\ \/ /\ problem' = SetState(c, ProblemData(c.problemId), problem)
             /\ calls' = (calls \ { c }) \cup
                            { [ c EXCEPT !.at = "getCodeDraft",
                                         !.data = ProblemData(c.problemId) ] }
             /\ UNCHANGED loading
          \/ /\ loading' = SetState(c, FALSE, loading)
             /\ calls' = calls \ { c }
             /\ UNCHANGED problem
       /\ UNCHANGED << scorerVars, pipelineVars, appVars, code, language,
                       running, submitting, result, aiAnalysis,
                       recommendations, codeByLanguage, autoSaveTimeoutRef,
                       startTimeRef, timers, clicks, idleMs >>

\* The draft loadProblem uses: the one of the API, else the one of
\* localStorage under code_draft_<problemId>.
SavedDraft(apiDraft, id) ==
    IF (apiDraft = null \/ ~ Truthy(apiDraft.code))
          /\ localStorage[DraftKey(id)] # null
    THEN Parse(localStorage[DraftKey(id)])
    ELSE apiDraft

\* loadProblem after 'await getCodeDraft(problemId)' (which answers null when
\* the request fails): the editor gets the draft, or the starter code.
GetCodeDraftSettles ==
    \E c \in calls :
       /\ c.fn = "loadProblem"
       /\ c.at = "getCodeDraft"
       /\ \E apiDraft \in { null, ServerDraft(c.problemId) } :
             LET savedDraft == SavedDraft(apiDraft, c.problemId)
                 useDraft   == savedDraft # null /\ Truthy(savedDraft.code)
                 text       == IF useDraft THEN savedDraft.code
                               ELSE InitialCode(c.data)
                 lang       == IF useDraft THEN savedDraft.language
                               ELSE "python"
             IN  /\ code' = SetState(c, text, code)
                 /\ language' = SetState(c, IF useDraft THEN lang ELSE language,
                                         language)
                 /\ codeByLanguage' =
                       SetState(c, [ l \in Languages |->
                                       IF l = lang THEN text ELSE undefined ],
                                codeByLanguage)
       /\ loading' = SetState(c, FALSE, loading)
       /\ calls' = calls \ { c }
       /\ UNCHANGED << scorerVars, pipelineVars, appVars, problem, running,
                       submitting, result, aiAnalysis, recommendations,
                       autoSaveTimeoutRef, startTimeRef, timers, clicks,
                       idleMs >>

\* handleCodeChange(value): the editor content changed to value.  The
\* pending auto-save is cleared and a new one is set 1.5 s ahead; its
\* callback keeps the value, the language and the problemId of this render.
HandleCodeChange ==
    /\ EditorShown
    /\ clicks < MaxClicks
    /\ \E value \in TypedCodes :
          /\ value # code
          /\ code' = value
          /\ codeByLanguage' = [ codeByLanguage EXCEPT ![language] = value ]
          /\ timers' = CancelPending(timers, autoSaveTimeoutRef) \cup
                          { [ id |-> clicks + 1, code |-> value,
                              language |-> language,
                              problemId |-> selectedProblemId,
                              remaining |-> AutoSaveDelayMs ] }
    /\ autoSaveTimeoutRef' = clicks + 1
    /\ idleMs' = 0
    /\ clicks' = clicks + 1
    /\ UNCHANGED << scorerVars, pipelineVars, appVars, problem, language,
                    loading, running, submitting, result, aiAnalysis,
                    recommendations, startTimeRef, calls >>

\* Time passes, by half the auto-save delay, while a timeout is running.
HalfDelayMs == AutoSaveDelayMs \div 2

Tick ==
    /\ \E t \in timers : t.remaining > 0
    /\ timers' = { [ t EXCEPT !.remaining = Max(0, @ - HalfDelayMs) ] :
                     t \in timers }
    /\ idleMs' = Min(AutoSaveDelayMs, idleMs + HalfDelayMs)
    /\ UNCHANGED << scorerVars, pipelineVars, appVars, editorVars, calls,
                    clicks >>

\* A timeout is due: autoSave(value, language) writes the draft of its
\* problemId to localStorage, unless the code is too short.  (The request
\* to the draft API that follows only sets the draft status.)
AutoSave ==
    \E t \in timers :
       /\ t.remaining = 0
       /\ timers' = timers \ { t }
       /\ localStorage' =
             IF ShouldSave(t.code)
             THEN [ localStorage EXCEPT ![DraftKey(t.problemId)] =
                       Stringify([ code |-> t.code, language |-> t.language ]) ]
             ELSE localStorage
       /\ UNCHANGED << scorerVars, pipelineVars, currentUser, currentView,
                       selectedProblemId, refreshTrigger, authCalls,
                       editorVars, calls, clicks, idleMs >>

\* handleLanguageChange(newLang): the code of the current language is kept,
\* and the editor shows what is kept for newLang, if that is truthy, or
\* starter code.
HandleLanguageChange ==
    /\ EditorShown
    /\ clicks < MaxClicks
    /\ \E newLang \in Languages :
          LET kept      == [ codeByLanguage EXCEPT ![language] = code ]
              savedCode == kept[newLang]
              starter   == GetStarterCode(newLang, problem)
          IN  /\ code' = IF Truthy(savedCode) THEN savedCode ELSE starter
              /\ codeByLanguage' =
                    IF Truthy(savedCode) THEN kept
                    ELSE [ kept EXCEPT ![newLang] = starter ]
              /\ language' = newLang
    /\ clicks' = clicks + 1
    /\ UNCHANGED << scorerVars, pipelineVars, appVars, problem, loading,
                    running, submitting, result, aiAnalysis, recommendations,
                    autoSaveTimeoutRef, startTimeRef, timers, calls, idleMs >>

\* Mutant: the flag is reset inside the try block, so not when the request
\* failed.
FlagWhenSettledInTry(failed) == failed

\* setRunning(false) / setSubmitting(false) after the try ... catch: the value
\* of the flag when the handler ends, whether or not the request failed.
FlagWhenSettled(failed) == FALSE

\* handleRun up to 'await runCode(problemId, code, language)'.
HandleRun ==
    /\ EditorShown
    /\ ~ ButtonsDisabled(running, submitting)
    /\ clicks < MaxClicks
    /\ running' = TRUE
    /\ result' = null
    /\ aiAnalysis' = null
    /\ recommendations' = null
    /\ calls' = calls \cup { Call("handleRun", "runCode", selectedProblemId, null) }
    /\ clicks' = clicks + 1
    /\ UNCHANGED << scorerVars, pipelineVars, appVars, problem, code, language,
                    loading, submitting, codeByLanguage, autoSaveTimeoutRef,
                    startTimeRef, timers, idleMs >>

\* handleRun after the await: the result of the run, or the error, is set
\* and running ends.
RunCodeSettles ==
    \E c \in calls :
       /\ c.fn = "handleRun"
       /\ \E data \in ExecutionResults(c) \cup { ErrorResult(c) } :
             /\ result' = SetState(c, data, result)
             /\ running' = SetState(c, FlagWhenSettled(data.error), running)
       /\ calls' = calls \ { c }
       /\ UNCHANGED << scorerVars, pipelineVars, appVars, problem, code,
                       language, loading, submitting, aiAnalysis,
                       recommendations, codeByLanguage, autoSaveTimeoutRef,
                       startTimeRef, timers, clicks, idleMs >>

\* handleSubmit up to 'await submitCode(problemId, code, ...)'.
HandleSubmit ==
    /\ EditorShown
    /\ ~ ButtonsDisabled(running, submitting)
    /\ clicks < MaxClicks
    /\ submitting' = TRUE
    /\ result' = null
    /\ aiAnalysis' = null
    /\ recommendations' = null
    /\ calls' = calls \cup
                  { Call("handleSubmit", "submitCode", selectedProblemId, null) }
    /\ clicks' = clicks + 1
    /\ UNCHANGED << scorerVars, pipelineVars, appVars, problem, code, language,
                    loading, running, codeByLanguage, autoSaveTimeoutRef,
                    startTimeRef, timers, idleMs >>

\* handleSubmit after 'await submitCode': the execution result and the AI
\* analysis are set and the recommendations are requested; or the request
\* failed, the error is set and submitting ends.
SubmitCodeSettles ==
    \E c \in calls :
       /\ c.fn = "handleSubmit"
       /\ c.at = "submitCode"
       /\ \/ \E data \in ExecutionResults(c) :
                /\ result' = SetState(c, data, result)
                /\ aiAnalysis' = SetState(c, AiAnalysis(c), aiAnalysis)
                /\ calls' = (calls \ { c }) \cup
                               { [ c EXCEPT !.at = "getRecommendations",
                                            !.data = data ] }
                /\ UNCHANGED submitting
          \/ /\ result' = SetState(c, ErrorResult(c), result)
             /\ submitting' = SetState(c, FlagWhenSettled(TRUE), submitting)
             /\ calls' = calls \ { c }
             /\ UNCHANGED aiAnalysis
       /\ UNCHANGED << scorerVars, pipelineVars, appVars, problem, code,
                       language, loading, running, recommendations,
                       codeByLanguage, autoSaveTimeoutRef, startTimeRef,
                       timers, clicks, idleMs >>

\* onSubmitSuccess is called: if (data.execution_result?.passed).
SubmitSucceeded(data) == data.passed

\* handleSubmitSuccess of App.
HandleSubmitSuccess(trigger) == trigger + 1

\* handleSubmit after 'await getRecommendations()', answered or failed: the
\* recommendations are set if there are any; after a passed submission the
\* localStorage draft of the problem is removed and onSubmitSuccess is
\* called; submitting ends.
GetRecommendationsSettles ==
    \E c \in calls :
       /\ c.fn = "handleSubmit"
       /\ c.at = "getRecommendations"
       /\ \/ \E list \in RecommendationLists :
                recommendations' =
                   SetState(c, [ recommended_problems |-> list, req |-> c.id ],
                            recommendations)
          \/ UNCHANGED recommendations
       /\ IF SubmitSucceeded(c.data)
          THEN /\ localStorage' = [ localStorage EXCEPT
                                      ![DraftKey(c.problemId)] = null ]
               /\ refreshTrigger' = HandleSubmitSuccess(refreshTrigger)
          ELSE UNCHANGED << localStorage, refreshTrigger >>
       /\ submitting' = SetState(c, FlagWhenSettled(FALSE), submitting)
       /\ calls' = calls \ { c }
       /\ UNCHANGED << scorerVars, pipelineVars, currentUser, currentView,
                       selectedProblemId, authCalls, problem, code, language,
                       loading, running, result, aiAnalysis, codeByLanguage,
                       autoSaveTimeoutRef, startTimeRef, timers, clicks,
                       idleMs >>

EditorNext ==
    \/ HandleSelectProblem
    \/ HandleBack
    \/ ClickRecommendation
    \/ GetProblemSettles
    \/ GetCodeDraftSettles
    \/ HandleCodeChange
    \/ Tick
    \/ AutoSave
    \/ HandleLanguageChange
    \/ HandleRun
    \/ RunCodeSettles
    \/ HandleSubmit
    \/ SubmitCodeSettles
    \/ GetRecommendationsSettles

EditorSpec == EditorInit /\ [][EditorNext]_vars

\* Every request is answered or fails in the end (the browser settles the
\* promise of every HTTP request), so a handler suspended at an await is
\* resumed.  Nothing is assumed about what the user does.
EditorFairSpec ==
    /\ EditorSpec
    /\ WF_vars(RunCodeSettles)
    /\ WF_vars(SubmitCodeSettles)
    /\ WF_vars(GetRecommendationsSettles)

(***************************************************************************)
(* Properties of the code editor                                           *)
(***************************************************************************)

\* The handleSubmit calls that got a response from submitCode and end in
\* this step.
SubmissionsEnding ==
    { c \in calls : c.fn = "handleSubmit" /\ c.at = "getRecommendations"
                      /\ c \notin calls' }

\* C22: every handleSubmit that gets a response increments refreshTrigger of
\* App (through onSubmitSuccess), whether the submission passed or failed
\* its tests.
C22_EverySubmissionRefreshes ==
    [][ SubmissionsEnding # {} => refreshTrigger' = refreshTrigger + 1 ]_vars

\* Refuted by a submission that fails its tests: handleSubmit calls
\* onSubmitSuccess only when execution_result.passed is true, so the
\* handler ends and refreshTrigger keeps its value.

\* Displayed output (a result, an analysis or recommendations) that was
\* asked for after the current problem was opened, and for that problem.
OfCurrentProblem(output) ==
    /\ output.req > startTimeRef
    /\ "problemId" \in DOMAIN output => output.problemId = selectedProblemId

\* C23: after the selected problem changes, result, aiAnalysis and
\* recommendations are empty until the user runs or submits code for the
\* new problem: whatever the editor displays was requested after the current
\* problem was opened, so the response of a run or submit started on the
\* previous problem is never the displayed result of the new problem.
C23_ResultsOfCurrentProblem ==
    EditorMounted =>
       /\ result # null => OfCurrentProblem(result)
       /\ aiAnalysis # null => OfCurrentProblem(aiAnalysis)
       /\ recommendations # null => OfCurrentProblem(recommendations)

\* C23 witness: a passed submission on the first problem (click 2), a click
\* on a recommended other problem (click 3), and a run on the new problem
\* (click 4) whose result is displayed.
C23_Witness ==
    /\ EditorShown
    /\ startTimeRef = 3
    /\ refreshTrigger = 1
    /\ result # null
    /\ result.req = 4
    /\ result.problemId = selectedProblemId

\* C23 witness: the problem was changed by a recommendation and nothing has
\* been run on the new problem yet: the three outputs are empty.
C23_WitnessReset ==
    /\ EditorShown
    /\ startTimeRef = 3
    /\ refreshTrigger = 1
    /\ result = null /\ aiAnalysis = null /\ recommendations = null

\* C23 witness: a submission started in an editor that was left is answered
\* while another problem is open; the new editor shows no result.
C23_WitnessStaleResponse ==
    /\ EditorShown
    /\ result = null
    /\ \E c \in calls : c.orphan /\ c.fn = "handleSubmit"
                           /\ c.problemId # selectedProblemId

\* The timeouts whose callback (autoSave) runs in this step.
Fired ==
    { t \in timers : t.remaining = 0 /\ t \notin timers' /\ clicks' = clicks }

\* The drafts localStorage holds.
StoredDrafts ==
    { Parse(localStorage[DraftKey(id)]) :
        id \in { i \in ProblemIds : localStorage[DraftKey(i)] # null } }

\* C24: auto-save is debounced.  At most one save is pending at any time
\* and no stored draft has fewer than 10 characters after trim(); a save runs
\* only when 1.5 s have passed since the last code change, and a change of
\* problem or the unmount of the editor leaves no save pending.
C24_AutoSaveDebounced ==
    /\ [] ( /\ Cardinality(timers) <= 1
            /\ \A d \in StoredDrafts : Len(Trim(d.code)) >= MinDraftLength )
    /\ [][ /\ Fired # {} => idleMs >= AutoSaveDelayMs
           /\ selectedProblemId' # selectedProblemId => timers' = {}
       ]_vars

\* C24 witness: two code changes in a row (clicks 2 and 3), then 1.5 s
\* without a change, and the save of the second change has run.
C24_Witness ==
    /\ EditorShown
    /\ autoSaveTimeoutRef = 3
    /\ timers = {}
    /\ idleMs = AutoSaveDelayMs
    /\ code = LongCode
    /\ localStorage[DraftKey(selectedProblemId)] =
          Stringify([ code |-> LongCode, language |-> language ])

\* C24 witness: the timeout of a change to 11 characters of which 9 remain
\* after trim() has fired and nothing was saved.
C24_WitnessTooShort ==
    /\ EditorShown
    /\ autoSaveTimeoutRef # 0
    /\ timers = {}
    /\ idleMs = AutoSaveDelayMs
    /\ code = PaddedCode
    /\ localStorage[DraftKey(selectedProblemId)] = null

\* C24 witness: the problem changed while a save was pending, and the save
\* is cancelled.
C24_WitnessCancelled ==
    /\ EditorMounted
    /\ autoSaveTimeoutRef # 0
    /\ startTimeRef > autoSaveTimeoutRef
    /\ idleMs < AutoSaveDelayMs
    /\ timers = {}

\* The editor displays the outcome of a passed submission of the current
\* problem whose handler has ended.
PassedSubmissionDisplayed ==
    /\ EditorMounted
    /\ ~ submitting
    /\ result # null
    /\ aiAnalysis # null
    /\ aiAnalysis.req = result.req
    /\ result.passed
    /\ result.problemId = selectedProblemId

\* C25: after a passed submission the localStorage draft of the problem is
\* removed and stays absent until the user changes the code again; an
\* auto-save scheduled before the submission does not re-create it.
C25_DraftStaysRemoved ==
    PassedSubmissionDisplayed /\ autoSaveTimeoutRef < result.req =>
       localStorage[DraftKey(selectedProblemId)] = null

\* Refuted: handleSubmit does not clear the pending timeout.  A code change
\* followed within 1.5 s by a submission that is answered before the timeout
\* is due gets its draft removed and then written again by autoSave.

\* The step is a switch of the editor language by the user.
LanguageSwitched ==
    /\ EditorShown
    /\ clicks' = clicks + 1
    /\ selectedProblemId' = selectedProblemId
    /\ language' # language

\* On a switch the code the editor holds is kept for the language left.
C26_KeptOnLeaving ==
    LanguageSwitched => codeByLanguage'[language] = code

\* On a switch to a language seen before (since the problem was opened) the
\* editor shows exactly the code kept for it.
C26_RestoredOnReturn ==
    LanguageSwitched /\ codeByLanguage[language'] # undefined =>
       code' = codeByLanguage[language']

\* On a switch to a language seen for the first time the editor shows the
\* generated starter code.
C26_StarterOnFirstVisit ==
    LanguageSwitched /\ codeByLanguage[language'] = undefined =>
       code' = GetStarterCode(language', problem)

\* C26: switching the language from A to B and back to A restores exactly
\* the code the editor held for A, for every content of A including the
\* empty string; the code of a language is kept until the problem changes,
\* and a language seen for the first time starts from generated starter
\* code.
C26_LanguageRoundTrip ==
    [][ C26_KeptOnLeaving /\ C26_RestoredOnReturn /\ C26_StarterOnFirstVisit ]_vars

\* Refuted for the empty string: handleLanguageChange tests the kept code
\* with if (savedCode), '' is falsy, and an editor that was emptied for A
\* shows starter code after A -> B -> A.

\* What the code does keep: the round trip of every non-empty code.
C26_RestoredWhenNotEmpty ==
    [][ /\ C26_KeptOnLeaving
        /\ C26_StarterOnFirstVisit
        /\ (LanguageSwitched /\ Truthy(codeByLanguage[language'])) =>
              code' = codeByLanguage[language'] ]_vars

\* The handleRun / handleSubmit calls of the mounted editor that have not
\* ended.
InFlight(fn) == { c \in calls : c.fn = fn /\ ~ c.orphan }

C27_WitnessRunning ==
    /\ EditorShown
    /\ running
    /\ clicks < MaxClicks

\* C27 witness: the editor was left with a request in flight and opened
\* again; the request of the editor that is gone is unanswered and the
\* buttons of the new editor are enabled.
C27_WitnessLeftEditor ==
    /\ EditorShown
    /\ ~ ButtonsDisabled(running, submitting)
    /\ \E c \in calls : c.orphan /\ c.fn \in { "handleRun", "handleSubmit" }

\* The loadProblem calls of the mounted editor that have not ended.
Loading == { c \in calls : c.fn = "loadProblem" /\ ~ c.orphan }

\* The codes loadProblem can put in the editor for a problem: a draft of the
\* problem (of the API or of localStorage) or its starter code.
CodesOf(id) ==
    { ServerDraft(id).code, InitialCode(ProblemData(id)) }
       \cup { d.code : d \in { Parse(localStorage[DraftKey(i)]) :
                                  i \in { j \in { id } :
                                            localStorage[DraftKey(j)] # null } } }

\* C28: once all getProblem and draft requests of the editor have settled,
\* the editor shows the problem and the code of the latest problemId, in
\* whatever order the requests were answered: the problem it holds is the
\* selected one, and the step that ends the last request leaves the code of
\* that problem in the editor (unless there is no problem to show).
C28_ShowsLatestProblem ==
    /\ [] ( EditorMounted /\ Loading = {} /\ problem # null =>
               problem.problem_id = selectedProblemId )
    /\ [][ /\ EditorMounted /\ Loading # {}
           /\ EditorMounted' /\ Loading' = {} /\ problem' # null
           => code' \in CodesOf(selectedProblemId) ]_vars

\* Refuted by a request that fails: the effect on problemId does not reset
\* problem and code, so when getProblem of the new problem is rejected the
\* editor ends loading with the previous problem and its code on display.

\* What holds of answers in any order: a problem that loadProblem sets is
\* the selected one, because the editor has one loadProblem in flight at
\* most and a later answer to an editor that was left sets nothing.
C28_LoadedProblemIsSelected ==
    /\ [] ( Cardinality(Loading) <= 1 )
    /\ [][ problem' # problem /\ problem' # null =>
              problem'.problem_id = selectedProblemId' ]_vars

\* The handleRun calls of the mounted editor that end in this step.
RunsEnding ==
    { c \in InFlight("handleRun") : clicks' = clicks /\ c \notin calls' }

\* The handleSubmit calls of the mounted editor that leave the await of
\* getRecommendations in this step.
RecommendationsSettling ==
    { c \in InFlight("handleSubmit") :
         clicks' = clicks /\ c.at = "getRecommendations" /\ c \notin calls' }

\* The handleSubmit calls of the mounted editor that end in this step.
SubmitsEnding ==
    { c \in InFlight("handleSubmit") :
         clicks' = clicks /\ \A d \in calls' : d.id # c.id }

\* C29: every handleRun and handleSubmit that starts resets its flag once
\* its request settles, resolved or rejected, and also when the follow-up
\* getRecommendations fails: a flag that is true becomes false, the step
\* that ends a handler sets its flag to false, and the step after
\* getRecommendations, answered or failed, leaves result and aiAnalysis as
\* the submission set them.
C29_FlagsReset ==
    /\ running ~> ~ running
    /\ submitting ~> ~ submitting
    /\ [][ /\ RunsEnding # {} => ~ running'
           /\ SubmitsEnding # {} => ~ submitting'
           /\ RecommendationsSettling # {} =>
                 /\ result' = result
                 /\ aiAnalysis' = aiAnalysis
                 /\ ~ result'.error
       ]_vars

\* C29 witness: a submission was answered, getRecommendations failed, and
\* the handler has ended: result and analysis are displayed, there are no
\* recommendations, and submitting is false.
C29_Witness ==
    /\ EditorShown
    /\ ~ submitting
    /\ result # null
    /\ ~ result.error
    /\ aiAnalysis # null
    /\ aiAnalysis.req = result.req
    /\ recommendations = null

\* C29 witness: runCode or submitCode was rejected; the error is displayed and
\* the flags are false.
C29_WitnessRejected ==
    /\ EditorShown
    /\ ~ running
    /\ ~ submitting
    /\ result # null
    /\ result.error
    /\ aiAnalysis = null

(***************************************************************************)
(* Web client: authentication (App.js and the API module).  The Auth page  *)
(* itself is not part of the source tree; of it the model keeps what App   *)
(* tells by the prop it passes: the page sends login, register or Google   *)
(* sign-in requests and calls onLoginSuccess with the user of a            *)
(* successful response.                                                    *)
(***************************************************************************)

\* getCurrentUser(): the stored user, or null.
GetCurrentUser(storage) ==
    IF storage["currentUser"] = null THEN null ELSE Parse(storage["currentUser"])

\* isAuthenticated()
IsAuthenticated(storage) == GetCurrentUser(storage) # null

\* saveCurrentUser(user)
SaveCurrentUser(storage, user) ==
    [ storage EXCEPT !["currentUser"] = Stringify(user) ]

\* Mutant: only the legacy userId key is removed.
ClearCurrentUserIdOnly(storage) == [ storage EXCEPT !["userId"] = null ]

\* clearCurrentUser()
ClearCurrentUser(storage) ==
    [ storage EXCEPT !["currentUser"] = null, !["userId"] = null ]

\* What POST /auth/login, /auth/register and /auth/google answer.
AuthResponses ==
    { [ success |-> TRUE, user |-> u ] : u \in Users }
       \cup { [ success |-> FALSE, user |-> null ] }

\* Mutant: the user of the response is stored whatever the response says.
StoresUserAlways(data) == TRUE

\* login / register / googleAuth: if (response.data.success)
StoresUser(data) == data.success

\* The Auth page calls onLoginSuccess(data.user) after a successful response.
AuthPageCallsBack(data) == data.success

\* App after its mount effect: the user of a previous session, if one is
\* stored, is the current user.
AppInit ==
    /\ sub = [ passed |-> FALSE ]
    /\ meta = [ expected_time_minutes |-> 0 ]
    /\ score = NoScore
    /\ PipelineIdle
    /\ \E stored \in { null, Stringify(DemoUser) } :
          localStorage = [ EmptyStorage EXCEPT
                             !["currentUser"] = stored,
                             !["userId"] = IF stored = null THEN null
                                           ELSE Stringify(DemoUser.user_id) ]
    /\ currentUser = GetCurrentUser(localStorage)
    /\ currentView = "problems"
    /\ selectedProblemId = NoProblemId
    /\ refreshTrigger = 0
    /\ authCalls = {}
    /\ EditorIs(EditorInitial)
    /\ timers = {}
    /\ calls = {}
    /\ clicks = 0
    /\ idleMs = 0

\* The Auth page sends a login, register or Google sign-in request.
StartAuth ==
    /\ currentUser = null
    /\ clicks < MaxClicks
    /\ \E fn \in { "login", "register", "googleAuth" } :
          authCalls' = authCalls \cup { [ id |-> clicks + 1, fn |-> fn ] }
    /\ clicks' = clicks + 1
    /\ UNCHANGED << scorerVars, pipelineVars, localStorage, currentUser,
                    currentView, selectedProblemId, refreshTrigger,
                    editorVars, timers, calls, idleMs >>

\* login / register / googleAuth after the await: the user of a successful
\* response is stored; the Auth page then hands it to handleLoginSuccess,
\* which sets currentUser and increments refreshTrigger.  A request that is
\* rejected stores nothing.
AuthSettles ==
    \E c \in authCalls :
       /\ authCalls' = authCalls \ { c }
       /\ \/ \E data \in AuthResponses :
                /\ localStorage' = IF StoresUser(data)
                                   THEN SaveCurrentUser(localStorage, data.user)
                                   ELSE localStorage
                /\ currentUser' = IF AuthPageCallsBack(data) THEN data.user
                                  ELSE currentUser
                /\ refreshTrigger' = IF AuthPageCallsBack(data)
                                     THEN refreshTrigger + 1
                                     ELSE refreshTrigger
          \/ UNCHANGED << localStorage, currentUser, refreshTrigger >>
       /\ UNCHANGED << scorerVars, pipelineVars, currentView,
                       selectedProblemId, editorVars, browserVars >>

\* handleLogout (the header's Logout): the stored user is cleared,
\* currentUser is null and the view is 'problems'.  App then renders the
\* Auth page only, so an editor that was mounted is unmounted.
HandleLogout ==
    /\ currentUser # null
    /\ clicks < MaxClicks
    /\ localStorage' = ClearCurrentUser(localStorage)
    /\ currentUser' = null
    /\ currentView' = "problems"
    /\ timers' = IF EditorMounted THEN CancelPending(timers, autoSaveTimeoutRef)
                 ELSE timers
    /\ calls' = { [ c EXCEPT !.orphan = TRUE ] : c \in calls }
    /\ problem' = EditorInitial.problem
    /\ code' = EditorInitial.code
    /\ language' = EditorInitial.language
    /\ loading' = EditorInitial.loading
    /\ running' = EditorInitial.running
    /\ submitting' = EditorInitial.submitting
    /\ result' = EditorInitial.result
    /\ aiAnalysis' = EditorInitial.aiAnalysis
    /\ recommendations' = EditorInitial.recommendations
    /\ codeByLanguage' = EditorInitial.codeByLanguage
    /\ autoSaveTimeoutRef' = EditorInitial.autoSaveTimeoutRef
    /\ startTimeRef' = EditorInitial.startTimeRef
    /\ clicks' = clicks + 1
    /\ UNCHANGED << scorerVars, pipelineVars, selectedProblemId,
                    refreshTrigger, authCalls, idleMs >>

AppNext ==
    \/ StartAuth
    \/ AuthSettles
    \/ HandleLogout
    \/ EditorNext

AppSpec == AppInit /\ [][AppNext]_vars

\* App renders the header and the main content, not the Auth page.
ProtectedContentRendered == currentUser # null

C30_WitnessFromEditor ==
    /\ currentUser = null
    /\ selectedProblemId # NoProblemId
    /\ currentView = "problems"
    /\ localStorage["currentUser"] = null

\* C30 witness: a response with success = false left the Auth page in place.
C30_WitnessFailedLogin ==
    /\ currentUser = null
    /\ clicks = 1
    /\ authCalls = {}
    /\ localStorage["currentUser"] = null
====
